---- MODULE Spec2Model ----
(***************************************************************************)
(* Model of raygun's timeline store (src/src/state/mod.rs): the bounded    *)
(* event ledger, the lock registry and the current-screen cursor, folded   *)
(* from incoming requests by AppState::record_request.                     *)
(*                                                                         *)
(* Strings are sequences of one-character strings, so that trim() is       *)
(* computed and not assumed.  Option<T> is a sequence of length 0 or 1.    *)
(* A JSON object (payload content, request meta) is a function from its    *)
(* keys to its values; a key whose value is not a string is modelled as an *)
(* absent key, which is what content_string / as_str make of it.           *)
(***************************************************************************)
EXTENDS Integers, Sequences, FiniteSets, TLC

VARIABLES timeline, locks, current_screen, next_id, work, op, req, ret, before,
          tasks, guard, serial, seen, sink,
          detail, app, list, ctx, keys, cycle, spawned, preview, run, view

vars ==
    <<timeline, locks, current_screen, next_id, work, op, req, ret, before,
      tasks, guard, serial, seen, sink, detail, app, list, ctx, keys, cycle,
      spawned, preview, run, view>>

\* The store's own variables with the history of the last call, and the
\* variables of the concurrent ingestion: the handler tasks, the RwLock
\* around the store, the reader's snapshot and the debug sink.
store_vars == <<timeline, locks, current_screen, next_id, work, op, req, ret, before>>

ingest_vars == <<tasks, guard, serial, seen, sink>>

\* The terminal UI: the indents of the detail lines of the selected event,
\* the fields of RaygunApp (app: the focus, the scroll and the DetailState of
\* the current event; list: the selection, the filter and the DetailStates
\* of all events), the DetailContext of the last frame, and the
\* last keys with the collapsed set and the visible indices they found;
\* the filters that consecutive presses of the filter key have set; the
\* number of spawned clear_timeline tasks that have not run yet; a text
\* with what clip or flatten made of it, call after call; the tasks of
\* RaygunApp::run and where each of them is; the view model that
\* build_view_model is putting together.
ui_vars == <<detail, app, list, ctx, keys, cycle, spawned, preview, run, view>>

(***************************************************************************)
(* Bounds of the exploration.                                              *)
(***************************************************************************)
\* AppState.retention, as set by AppState::new(retention).
retention == 2
\* Total number of payloads folded in one run (a call costs at least 1).
MaxWork == 4
\* Largest number of payloads in one request.
MaxPayloads == 2
\* Largest number of lines of a detail view, and their largest indent.
MaxLines == 4
MaxIndent == 2
\* Longest text given to clip, and the largest number of pieces (plain
\* characters, entities, halves of entities) of a text given to flatten.
MaxText == 82
MaxPieces == 4
\* Most events waiting in the input channel, and most connections the HTTP
\* server has open at a time.
MaxQueue == 2
MaxConns == 1
\* Most events in the store when a frame is built from a long timeline.
MaxEvents == 202

(***************************************************************************)
(* Option and string helpers.                                              *)
(***************************************************************************)
None == <<>>
Some(x) == <<x>>
is_some(o) == o # None
unwrap(o) == o[1]

IsSpace(c) == c = " "

RECURSIVE trim_start(_)
trim_start(s) ==
    IF s # <<>> /\ IsSpace(Head(s)) THEN trim_start(Tail(s)) ELSE s

RECURSIVE trim_end(_)
trim_end(s) ==
    IF s # <<>> /\ IsSpace(s[Len(s)])
    THEN trim_end(SubSeq(s, 1, Len(s) - 1))
    ELSE s

trim(s) == trim_end(trim_start(s))

\* JSON object lookup followed by as_str.
get_str(object, key) ==
    IF key \in DOMAIN object THEN Some(object[key]) ELSE None

content_string(payload, key) == get_str(payload.content, key)

(***************************************************************************)
(* Payload kinds, by the tag PayloadKind::deserialize reads.               *)
(***************************************************************************)
DisplayableKinds ==
    {"log", "custom", "text", "notify", "exception", "trace", "table",
     "image", "json_string", "decoded_json", "separator", "measure",
     "phpinfo", "size", "caller", "show_browser", "show_app", "hide_app",
     "ban", "charles", "new_screen"}

has_displayable_kind(payload) == payload.kind \in DisplayableKinds

(***************************************************************************)
(* Free functions of state/mod.rs.                                         *)
(***************************************************************************)
sanitize_screen_name(raw) ==
    IF trim(raw) = <<>> THEN <<"S", "c", "r", "e", "e", "n">> ELSE trim(raw)

ScreenKeys == <<"screen", "screen_name", "screenName">>

RECURSIVE screen_from_keys(_, _)
screen_from_keys(meta, i) ==
    IF i > Len(ScreenKeys) THEN None
    ELSE LET value == get_str(meta, ScreenKeys[i])
         IN IF is_some(value) /\ trim(unwrap(value)) # <<>>
            THEN Some(trim(unwrap(value)))
            ELSE screen_from_keys(meta, i + 1)

extract_screen_from_meta(meta) == screen_from_keys(meta, 1)

\* find_map over a JSON array of strings: the first one non-empty after trim.
RECURSIVE first_non_empty(_)
first_non_empty(items) ==
    IF items = <<>> THEN None
    ELSE IF trim(Head(items)) # <<>> THEN Some(trim(Head(items)))
    ELSE first_non_empty(Tail(items))

\* content.meta[*].clipboard_data: the strings of the items that have one.
RECURSIVE clipboard_strings(_)
clipboard_strings(items) ==
    IF items = <<>> THEN <<>>
    ELSE LET c == get_str(Head(items), "clipboard_data")
         IN (IF is_some(c) THEN <<unwrap(c)>> ELSE <<>>)
            \o clipboard_strings(Tail(items))

json_array(object, key) ==
    IF key \in DOMAIN object THEN object[key] ELSE <<>>

extract_single_log_message(event) ==
    IF Len(event.request.payloads) # 1 THEN None
    ELSE LET payload == event.request.payloads[1]
         IN IF payload.kind # "log" THEN None
            ELSE LET clipboard ==
                         first_non_empty(
                             clipboard_strings(json_array(payload.content, "meta")))
                 IN IF is_some(clipboard) THEN clipboard
                    ELSE first_non_empty(json_array(payload.content, "values"))

(***************************************************************************)
(* TimelineEvent and LockRecord.                                           *)
(***************************************************************************)
\* Uuid::new_v4() and SystemTime::now() are read one after the other when
\* the event is drafted: the drafts are numbered, and the clock has moved
\* on from one draft to the next.
TimelineEvent_new(id, request, screen) ==
    [id |-> id, received_at |-> id, request |-> request, screen |-> screen,
     color |-> None, label |-> None]

LockRecord_new(hostname, project_name) ==
    [hostname |-> hostname, project_name |-> project_name]

StateInner_default ==
    [timeline |-> <<>>, locks |-> <<>>, current_screen |-> None]

\* HashMap::insert and HashMap::remove on the lock registry.
map_insert(map, key, value) ==
    [k \in DOMAIN map \cup {key} |-> IF k = key THEN value ELSE map[k]]

map_remove(map, key) == [k \in DOMAIN map \ {key} |-> map[k]]

\* VecDeque::pop_back and VecDeque::pop_front (no-ops on an empty deque).
pop_back(deque) ==
    IF deque = <<>> THEN deque ELSE SubSeq(deque, 1, Len(deque) - 1)

pop_front(deque) == IF deque = <<>> THEN deque ELSE Tail(deque)

\* A variant of set_back that tags the head instead of the tail.
set_front(deque, field, value) ==
    IF deque = <<>> THEN deque
    ELSE [deque EXCEPT ![1] = [@ EXCEPT ![field] = value]]

\* back_mut(): set one field of the tail event, if there is a tail.
set_back(deque, field, value) ==
    IF deque = <<>> THEN deque
    ELSE [deque EXCEPT ![Len(deque)] = [@ EXCEPT ![field] = value]]

(***************************************************************************)
(* StateInner::apply_payloads: one step of the loop over the payloads.     *)
(* The fold state f carries the store (timeline, locks, current_screen),   *)
(* the drafted event and the loop's locals.                                *)
(***************************************************************************)
on_create_lock(f, payload, meta) ==
    LET name == content_string(payload, "name")
    IN IF is_some(name)
       THEN [f EXCEPT !.locks =
                map_insert(@, unwrap(name),
                           LockRecord_new(get_str(meta, "hostname"),
                                          get_str(meta, "project_name")))]
       ELSE f

\* A variant of on_clear_all that forgets to skip the request.
on_clear_all_without_skip(f) ==
    [f EXCEPT !.timeline = <<>>, !.locks = <<>>, !.current_screen = None]

\* A variant of on_clear_all that leaves the screen cursor as it is.
on_clear_all_keeping_cursor(f) ==
    [f EXCEPT !.timeline = <<>>, !.locks = <<>>, !.outcome = "Skip"]

on_clear_all(f) ==
    [f EXCEPT !.timeline = <<>>, !.locks = <<>>,
              !.current_screen = None, !.outcome = "Skip"]

on_remove(f, payload) ==
    LET name == content_string(payload, "name")
    IN [f EXCEPT !.locks = IF is_some(name) THEN map_remove(@, unwrap(name)) ELSE @,
                 !.timeline = pop_back(@),
                 !.outcome = "Skip"]

\* A variant of on_hide that pops the head instead of the tail.
on_hide_popping_head(f) == [f EXCEPT !.timeline = pop_front(@), !.outcome = "Skip"]

on_hide(f) == [f EXCEPT !.timeline = pop_back(@), !.outcome = "Skip"]

\* A variant of on_new_screen that names the event's screen and leaves the
\* cursor as it is.
on_new_screen_without_cursor(f, payload) ==
    LET name == content_string(payload, "name")
        g == IF is_some(name)
             THEN [f EXCEPT !.event.screen = Some(sanitize_screen_name(unwrap(name)))]
             ELSE f
    IN [g EXCEPT !.displayable = TRUE]

on_new_screen(f, payload) ==
    LET name == content_string(payload, "name")
        g == IF is_some(name)
             THEN [f EXCEPT !.current_screen = Some(sanitize_screen_name(unwrap(name))),
                            !.event.screen = Some(sanitize_screen_name(unwrap(name)))]
             ELSE f
    IN [g EXCEPT !.displayable = TRUE]

\* A variant of on_color that colors the tail event at once.
on_color_tagging_tail(f, payload) ==
    LET value == content_string(payload, "color")
    IN IF is_some(value)
       THEN [f EXCEPT !.event.color = value, !.pending_color = value,
                      !.timeline = set_back(@, "color", value)]
       ELSE f

on_color(f, payload) ==
    LET value == content_string(payload, "color")
    IN IF is_some(value)
       THEN [f EXCEPT !.event.color = value, !.pending_color = value]
       ELSE f

on_label(f, payload) ==
    LET value == content_string(payload, "label")
    IN IF is_some(value)
       THEN [f EXCEPT !.event.label = value, !.pending_label = value]
       ELSE f

mark_displayable(f, payload) ==
    IF has_displayable_kind(payload) THEN [f EXCEPT !.displayable = TRUE] ELSE f

apply_payload(f, payload, meta) ==
    LET g == CASE payload.kind = "create_lock" -> on_create_lock(f, payload, meta)
               [] payload.kind = "clear_all" -> on_clear_all(f)
               [] payload.kind = "remove" -> on_remove(f, payload)
               [] payload.kind = "hide" -> on_hide(f)
               [] payload.kind = "new_screen" -> on_new_screen(f, payload)
               [] payload.kind = "color" -> on_color(f, payload)
               [] payload.kind = "label" -> on_label(f, payload)
               [] OTHER -> f
    IN mark_displayable(g, payload)

\* A variant of fold_payloads that takes the payloads from the last to the
\* first.
RECURSIVE fold_payloads_backwards(_, _, _)
fold_payloads_backwards(f, payloads, meta) ==
    IF payloads = <<>> THEN f
    ELSE fold_payloads_backwards(apply_payload(f, payloads[Len(payloads)], meta),
                                 pop_back(payloads), meta)

RECURSIVE fold_payloads(_, _, _)
fold_payloads(f, payloads, meta) ==
    IF payloads = <<>> THEN f
    ELSE fold_payloads(apply_payload(f, Head(payloads), meta), Tail(payloads), meta)

\* The tail tagged with the pending color and label.
tag_tail(f) ==
    LET t1 == IF is_some(f.pending_color)
              THEN set_back(f.timeline, "color", f.pending_color)
              ELSE f.timeline
    IN IF is_some(f.pending_label)
       THEN set_back(t1, "label", f.pending_label)
       ELSE t1

\* Variants of apply_pending: one forgets to skip the request, one tags the
\* tail whether or not the request is displayable.
apply_pending_without_skip(f) ==
    IF ~f.displayable THEN [f EXCEPT !.timeline = tag_tail(f)] ELSE f

apply_pending_always(f) ==
    [f EXCEPT !.timeline = tag_tail(f),
              !.outcome = IF ~f.displayable THEN "Skip" ELSE @]

\* After the loop: a request with nothing displayable tags the tail and is
\* skipped.
apply_pending(f) ==
    IF ~f.displayable
    THEN [f EXCEPT !.timeline = tag_tail(f), !.outcome = "Skip"]
    ELSE f

\* A variant of inherit_screen that lets the cursor win over the event's
\* own screen.
inherit_cursor_always(event, cursor) ==
    IF cursor = None THEN event ELSE [event EXCEPT !.screen = cursor]

inherit_screen(event, cursor) ==
    IF event.screen = None THEN [event EXCEPT !.screen = cursor] ELSE event

apply_payloads(inner, event) ==
    LET f0 == [timeline |-> inner.timeline, locks |-> inner.locks,
               current_screen |-> inner.current_screen, event |-> event,
               displayable |-> FALSE, outcome |-> "Record",
               pending_color |-> None, pending_label |-> None]
        f1 == apply_pending(fold_payloads(f0, event.request.payloads, event.request.meta))
    IN [inner |-> [timeline |-> f1.timeline, locks |-> f1.locks,
                   current_screen |-> f1.current_screen],
        event |-> inherit_screen(f1.event, f1.current_screen),
        outcome |-> f1.outcome]

(***************************************************************************)
(* StateInner::merge_previous_log_into_context.                            *)
(***************************************************************************)
has_trace_or_caller(request) ==
    \E i \in 1..Len(request.payloads) :
        request.payloads[i].kind \in {"trace", "caller"}

\* A variant of the merge that labels the new event and leaves the tail.
merge_without_pop(inner, event) ==
    IF ~has_trace_or_caller(event.request)
    THEN [inner |-> inner, event |-> event]
    ELSE LET last_message ==
                 IF inner.timeline = <<>> THEN None
                 ELSE extract_single_log_message(inner.timeline[Len(inner.timeline)])
         IN IF is_some(last_message) /\ event.label = None
            THEN [inner |-> inner, event |-> [event EXCEPT !.label = last_message]]
            ELSE [inner |-> inner, event |-> event]

merge_previous_log_into_context(inner, event) ==
    IF ~has_trace_or_caller(event.request)
    THEN [inner |-> inner, event |-> event]
    ELSE LET last_message ==
                 IF inner.timeline = <<>> THEN None
                 ELSE extract_single_log_message(inner.timeline[Len(inner.timeline)])
         IN IF is_some(last_message)
            THEN [inner |-> [inner EXCEPT !.timeline = pop_back(@)],
                  event |-> IF event.label = None
                            THEN [event EXCEPT !.label = last_message]
                            ELSE event]
            ELSE [inner |-> inner, event |-> event]

(***************************************************************************)
(* AppState::record_request, the part under the write lock.                *)
(***************************************************************************)
\* Variants of push_with_retention with a slip in them.
push_without_eviction(deque, event) == Append(deque, event)

push_unless_full(deque, event) ==
    IF Len(deque) >= retention THEN deque ELSE Append(deque, event)

push_at_head(deque, event) ==
    LET pushed == <<event>> \o deque
    IN IF Len(pushed) > retention THEN pop_back(pushed) ELSE pushed

push_with_retention(deque, event) ==
    LET pushed == Append(deque, event)
    IN IF Len(pushed) > retention THEN pop_front(pushed) ELSE pushed

\* A variant of skip_request that reports the tail as the request's result.
skip_request_reporting_tail(inner) ==
    [inner |-> inner,
     ret |-> IF inner.timeline = <<>> THEN None
             ELSE Some(inner.timeline[Len(inner.timeline)])]

\* outcome = Skip: nothing is stored, None is returned.
skip_request(inner) == [inner |-> inner, ret |-> None]

\* outcome = Record: the event is stored at the tail and returned.
store_event(inner, event) ==
    LET stored_event == inherit_screen(event, inner.current_screen)
    IN [inner |-> [inner EXCEPT !.timeline = push_with_retention(@, stored_event)],
        ret |-> Some(stored_event)]

record_request(inner, request, id) ==
    LET event == TimelineEvent_new(id, request, extract_screen_from_meta(request.meta))
        applied == apply_payloads(inner, event)
        merged == IF applied.outcome = "Record"
                  THEN merge_previous_log_into_context(applied.inner, applied.event)
                  ELSE [inner |-> applied.inner, event |-> applied.event]
    IN IF applied.outcome = "Skip"
       THEN skip_request(merged.inner)
       ELSE store_event(merged.inner, merged.event)

\* A variant of lock_exists that looks at the name only.
lock_exists_by_name(inner, name, hostname, project) == name \in DOMAIN inner.locks

lock_exists(inner, name, hostname, project) ==
    IF name \in DOMAIN inner.locks
    THEN /\ (is_some(hostname) => inner.locks[name].hostname = hostname)
         /\ (is_some(project) => inner.locks[name].project_name = project)
    ELSE FALSE

clear_lock(inner, name) == [inner EXCEPT !.locks = map_remove(@, name)]

\* A variant of clear_timeline that leaves the screen cursor alone.
clear_timeline_keeping_cursor(inner) == [inner EXCEPT !.timeline = <<>>]

\* A variant of clear_timeline that resets the whole store.
clear_timeline_and_locks(inner) == StateInner_default

clear_timeline(inner) ==
    [inner EXCEPT !.timeline = <<>>, !.current_screen = None]

timeline_snapshot(inner) == inner.timeline

timeline_len(inner) == Len(inner.timeline)

(***************************************************************************)
(* Inputs: the payloads and request metas the requests are built from.     *)
(***************************************************************************)
Payload(kind, content) == [kind |-> kind, content |-> content]


pLog == Payload("log", [values |-> <<<<"m">>>>, meta |-> <<>>])
pLogBlank == Payload("log", [values |-> <<<<" ">>>>, meta |-> <<>>])
pCustom == Payload("custom", [content |-> <<"x">>])
pTrace == Payload("trace", [frames |-> <<>>])
pUnknown == Payload("quantum_flux", <<>>)
pNewScreenD == Payload("new_screen", [name |-> <<" ", "D", " ">>])
pNewScreenBlank == Payload("new_screen", [name |-> <<" ">>])
pNewScreenNoName == Payload("new_screen", <<>>)
pColorRed == Payload("color", [color |-> <<"r">>])
pColorBlue == Payload("color", [color |-> <<"b">>])
pColorEmpty == Payload("color", [color |-> <<>>])
pLabelX == Payload("label", [label |-> <<"x">>])
pCreateLock == Payload("create_lock", [name |-> <<"L">>])
pRemoveL == Payload("remove", [name |-> <<"L">>])
pHide == Payload("hide", <<>>)
pClearAll == Payload("clear_all", <<>>)

mEmpty == <<>>
mScreenH == [screen_name |-> <<"H">>]
mScreenKeys ==
    [screen |-> <<" ">>, screen_name |-> <<" ", "N">>, screenName |-> <<"Z">>]
mHost == [hostname |-> <<"h">>, project_name |-> <<"p">>]

LockNames == {<<"L">>}

RECURSIVE SeqsUpTo(_, _)
SeqsUpTo(P, n) ==
    IF n = 0 THEN {<<>>}
    ELSE LET shorter == SeqsUpTo(P, n - 1)
         IN shorter \cup {Append(s, p) : s \in shorter, p \in P}

Requests(P, M) ==
    {[payloads |-> ps, meta |-> m] : ps \in SeqsUpTo(P, MaxPayloads), m \in M}

cost(request) ==
    IF request.payloads = <<>> THEN 1 ELSE Len(request.payloads)

(***************************************************************************)
(* Concurrent ingestion: the data.  Every POST / runs `ingest` in a task   *)
(* of its own on the multi-threaded runtime; a task is at one of the       *)
(* following places of ingest / record_request:                             *)
(*   idle      no request in hand (the last response is kept)              *)
(*   drafted   event drafted, waiting for inner.write()                    *)
(*   folding   holds the write lock, inside the loop of apply_payloads     *)
(*   applied   apply_payloads has returned its outcome                     *)
(*   merged    merge_previous_log_into_context done                        *)
(*   pushed    push_back done                                              *)
(*   stored    pop_front done if due                                       *)
(*   unlocked  drop(inner) done                                            *)
(*   logged    logger.log done if a logger is configured                   *)
(*   returned  record_request has returned                                 *)
(***************************************************************************)
Handlers == {"a", "b"}

NoEvent == TimelineEvent_new(0, [payloads |-> <<>>, meta |-> <<>>], None)

NoResponse == [status |-> "none", recorded |-> FALSE, event_id |-> None]

\* expected is what record_request returns for the request when the
\* requests are applied one after another in the order they took the write
\* lock; in_at_unlock, in_at_return and log_under_lock note whether the
\* event was in the timeline at drop(inner) and at the return, and whether
\* logger.log ran while the task held the write lock.
IdleTask ==
    [pc |-> "idle", event |-> NoEvent, next |-> 1,
     displayable |-> FALSE, outcome |-> "Record",
     pending_color |-> None, pending_label |-> None,
     ret |-> None, expected |-> None, response |-> NoResponse,
     in_at_unlock |-> FALSE, in_at_return |-> FALSE, log_under_lock |-> FALSE]

\* tokio::sync::RwLock around StateInner: at most one writer, or readers.
RwLock_new == [writer |-> None, readers |-> 0]

write_unguarded(lock) == TRUE

write_available(lock) == lock.writer = None /\ lock.readers = 0

read_available(lock) == lock.writer = None

\* The debug sink.  logger says whether AppState has a PayloadLogger; task
\* is where the spawned writer task is (opening the file, writing, draining
\* after a failed open, stopped after a failed write); channel is the
\* unbounded queue; file is what has been appended to the dump; sent lists
\* the event ids of the requests handed to sender.send, in order.
PayloadLogger_none ==
    [logger |-> FALSE, task |-> "stopped", channel |-> <<>>, file |-> <<>>,
     sent |-> <<>>]

PayloadLogger_new ==
    [logger |-> TRUE, task |-> "opening", channel |-> <<>>, file |-> <<>>,
     sent |-> <<>>]

(***************************************************************************)
(* The detail pane of the terminal UI: the data.  A detail view is         *)
(* modelled by the indents of its lines; line indices count from 0, as in  *)
(* the code, so line i is detail[i + 1].                                   *)
(***************************************************************************)
DetailState_default == [scroll |-> 0, cursor |-> 0, collapsed |-> {}]

\* The fields of RaygunApp the detail pane works with; detail_state is the
\* entry of detail_states for the selected event.
RaygunApp_bootstrap ==
    [focus |-> "Timeline", detail_scroll |-> 0, detail_state |-> DetailState_default]

\* The other fields of RaygunApp, as bootstrap sets them.
RaygunApp_list ==
    [selected |-> None, visible_events |-> <<>>, detail_states |-> <<>>,
     color_filter |-> None, available_colors |-> <<>>]

\* No filter key pressed yet; no text under clip or flatten.
NoCycle == [shown |-> <<>>, start |-> None, colors |-> <<>>, filters |-> <<>>]

NoPreview == [function |-> "none", values |-> <<>>]

\* The AppViewModel: its rows, the length of the snapshot they were taken
\* from and total_events; pc is "built" while build_view_model is between
\* the snapshot and timeline_len.
NoView == [pc |-> "idle", timeline |-> <<>>, taken_from |-> 0, total_events |-> 0]

(***************************************************************************)
(* RaygunApp::run and its tasks: the data.                                 *)
(*   pc       where run() is: in the loop ("select"), past the loop        *)
(*            ("exit_requested"), awaiting event_handle ("await_input"),   *)
(*            in ServerHandle::shutdown ("shutdown", "await_server"), or   *)
(*            returned ("done")                                            *)
(*   rx       the receiving half of the input channel                      *)
(*   channel  the events sent and not yet received                         *)
(*   input    where the task of spawn_event_loop is: before event::poll    *)
(*            ("poll"), at the tick test ("tick"), or terminated           *)
(*   due      last_tick.elapsed() >= tick_rate                             *)
(*   signalled, conns, server                                              *)
(*            the shutdown signal of the HTTP server, its open             *)
(*            connections, and its task                                    *)
(*   slept    the seconds time::sleep has been running                     *)
(*   result   what run() returned                                          *)
(***************************************************************************)
RaygunApp_run ==
    [pc |-> "select", rx |-> "open", channel |-> <<>>, input |-> "poll",
     due |-> FALSE, signalled |-> FALSE, conns |-> 0, server |-> "serving",
     slept |-> 0, result |-> "none"]

\* DetailContext::new without a detail view.
DetailContext_empty == [visible_indices |-> <<>>, has_children |-> <<>>]

(***************************************************************************)
(* The store as a state machine.  op, req and ret record the last call,    *)
(* its request and what record_request returned; before is the store as    *)
(* that call found it; next_id stands for Uuid::new_v4(); work counts the  *)
(* payloads folded so far.                                                 *)
(***************************************************************************)
inner == [timeline |-> timeline, locks |-> locks, current_screen |-> current_screen]

NoRequest == [payloads |-> <<>>, meta |-> <<>>]

\* AppState::with_debug_logger: the store after construction, with or
\* without a debug sink.
with_debug_logger(debug_logger) ==
    /\ timeline = StateInner_default.timeline
    /\ locks = StateInner_default.locks
    /\ current_screen = StateInner_default.current_screen
    /\ next_id = 1
    /\ work = 0
    /\ op = "new"
    /\ req = NoRequest
    /\ ret = None
    /\ before = inner
    /\ tasks = [h \in Handlers |-> IdleTask]
    /\ guard = RwLock_new
    /\ serial = StateInner_default
    /\ seen = <<>>
    /\ sink = debug_logger

\* RaygunApp::bootstrap: nothing selected, nothing drawn yet.
bootstrap ==
    /\ detail = <<>>
    /\ app = RaygunApp_bootstrap
    /\ ctx = DetailContext_empty
    /\ keys = <<>>
    /\ list = RaygunApp_list
    /\ cycle = NoCycle
    /\ spawned = 0
    /\ preview = NoPreview
    /\ run = RaygunApp_run
    /\ view = NoView

Init == with_debug_logger(PayloadLogger_none) /\ bootstrap

InitSink == with_debug_logger(PayloadLogger_new) /\ bootstrap

RecordRequest(request) ==
    /\ work + cost(request) <= MaxWork
    /\ LET result == record_request(inner, request, next_id)
       IN /\ timeline' = result.inner.timeline
          /\ locks' = result.inner.locks
          /\ current_screen' = result.inner.current_screen
          /\ ret' = result.ret
    /\ next_id' = next_id + 1
    /\ before' = inner
    /\ work' = work + cost(request)
    /\ op' = "record_request"
    /\ req' = request
    /\ UNCHANGED <<ingest_vars, ui_vars>>

ClearTimeline ==
    /\ work + 1 <= MaxWork
    /\ timeline' = clear_timeline(inner).timeline
    /\ current_screen' = clear_timeline(inner).current_screen
    /\ locks' = clear_timeline(inner).locks
    /\ before' = inner
    /\ work' = work + 1
    /\ op' = "clear_timeline"
    /\ req' = NoRequest
    /\ ret' = None
    /\ UNCHANGED <<next_id, ingest_vars, ui_vars>>

ClearLock(name) ==
    /\ work + 1 <= MaxWork
    /\ locks' = clear_lock(inner, name).locks
    /\ before' = inner
    /\ work' = work + 1
    /\ op' = "clear_lock"
    /\ req' = NoRequest
    /\ ret' = None
    /\ UNCHANGED <<timeline, current_screen, next_id, ingest_vars, ui_vars>>

Step(requests) ==
    \/ \E request \in requests : RecordRequest(request)
    \/ ClearTimeline
    \/ \E name \in LockNames : ClearLock(name)

(***************************************************************************)
(* Specifications.  Each one feeds the same store with requests built      *)
(* from its own set of payloads and metas.                                 *)
(***************************************************************************)
\* Control payloads against plain events: tagging, popping, clearing.
ControlPayloads ==
    {pLog, pColorRed, pColorBlue, pLabelX, pCreateLock, pRemoveL, pHide, pClearAll,
     pUnknown}

Next == Step(Requests(ControlPayloads, {mEmpty}))

Spec == Init /\ [][Next]_vars

\* Displayable payloads of several kinds: retention, order, log-merge.
LedgerPayloads == {pLog, pLogBlank, pCustom, pTrace, pLabelX, pHide, pClearAll}

NextLedger == Step(Requests(LedgerPayloads, {mEmpty}))

SpecLedger == Init /\ [][NextLedger]_vars

\* Screens: new_screen payloads, meta hints, clears.
ScreenPayloads ==
    {pLog, pNewScreenD, pNewScreenBlank, pNewScreenNoName, pClearAll}

HintedPayloads == {pLog, pNewScreenD}

NextScreen ==
    Step(Requests(ScreenPayloads, {mEmpty}) \cup Requests(HintedPayloads, {mScreenH}))

SpecScreen == Init /\ [][NextScreen]_vars

\* Screen hints under each of the three meta keys, against new_screen.
NextHint ==
    Step(Requests(ScreenPayloads, {mEmpty})
             \cup Requests(HintedPayloads, {mScreenH, mScreenKeys}))

SpecHint == Init /\ [][NextHint]_vars

\* Locks: create_lock, remove, hide, clear_all, with and without host meta.
LockPayloads == {pLog, pNewScreenD, pCreateLock, pRemoveL, pHide, pClearAll}

HostedPayloads == {pCreateLock}

NextLocks ==
    Step(Requests(LockPayloads, {mEmpty}) \cup Requests(HostedPayloads, {mHost}))

SpecLocks == Init /\ [][NextLocks]_vars

(***************************************************************************)
(* Concurrent ingestion: the steps of one task through ingest and          *)
(* record_request.  The steps between inner.write() and drop(inner) change *)
(* the store in place, one statement block at a time, as the code does.    *)
(* serial is the store as the requests leave it when they are applied one  *)
(* after another, whole, in the order in which they took the write lock.   *)
(***************************************************************************)
\* The state of apply_payloads' loop: the store and the task's locals.
fold_state(t) ==
    [timeline |-> timeline, locks |-> locks, current_screen |-> current_screen,
     event |-> t.event, displayable |-> t.displayable, outcome |-> t.outcome,
     pending_color |-> t.pending_color, pending_label |-> t.pending_label]

with_locals(t, f) ==
    [t EXCEPT !.event = f.event, !.displayable = f.displayable,
              !.outcome = f.outcome, !.pending_color = f.pending_color,
              !.pending_label = f.pending_label]

in_timeline(id) == \E i \in 1..Len(timeline) : timeline[i].id = id

push_back(deque, event) == Append(deque, event)

pop_front_over_retention(deque) ==
    IF Len(deque) > retention THEN pop_front(deque) ELSE deque

\* A variant of ingest_response that reports every request as recorded.
ingest_response_always_recorded(result) ==
    [status |-> "ACCEPTED", recorded |-> TRUE,
     event_id |-> IF is_some(result) THEN Some(unwrap(result).id) ELSE None]

\* The status and JSON body of ingest.
ingest_response(result) ==
    IF is_some(result)
    THEN [status |-> "ACCEPTED", recorded |-> TRUE,
          event_id |-> Some(unwrap(result).id)]
    ELSE [status |-> "ACCEPTED", recorded |-> FALSE, event_id |-> None]

\* A variant of PayloadLogger::log that sends the request twice.
PayloadLogger_log_twice(s, item) ==
    [s EXCEPT !.sent = @ \o <<item.id, item.id>>,
              !.channel = IF s.task = "stopped" THEN @ ELSE @ \o <<item, item>>]

\* PayloadLogger::log: send on the unbounded channel, the result ignored.
\* The send fails once the writer task has stopped and dropped the receiver.
PayloadLogger_log(s, item) ==
    [s EXCEPT !.sent = Append(@, item.id),
              !.channel = IF s.task = "stopped" THEN @ ELSE Append(@, item)]

\* A variant of send_ready for a channel of capacity one.
send_ready_when_empty(s) == s.channel = <<>>

\* UnboundedSender::send never waits.
send_ready(s) == TRUE

\* logger.log is called only if a logger is configured.
log_ready(s) == s.logger => send_ready(s)

Receive(h, request) ==
    /\ tasks[h].pc = "idle"
    /\ work + cost(request) <= MaxWork
    /\ tasks' = [tasks EXCEPT ![h] =
                    [IdleTask EXCEPT
                        !.pc = "drafted",
                        !.event = TimelineEvent_new(next_id, request,
                                      extract_screen_from_meta(request.meta))]]
    /\ next_id' = next_id + 1
    /\ work' = work + cost(request)
    /\ UNCHANGED <<timeline, locks, current_screen, op, req, ret, before,
                   guard, serial, seen, sink, ui_vars>>

AcquireWrite(h) ==
    /\ tasks[h].pc = "drafted"
    /\ write_available(guard)
    /\ guard' = [guard EXCEPT !.writer = Some(h)]
    /\ LET whole == record_request(serial, tasks[h].event.request, tasks[h].event.id)
       IN /\ serial' = whole.inner
          /\ tasks' = [tasks EXCEPT ![h] =
                          [@ EXCEPT !.pc = "folding", !.expected = whole.ret]]
    /\ UNCHANGED <<store_vars, seen, sink, ui_vars>>

ApplyPayload(h) ==
    /\ tasks[h].pc = "folding"
    /\ tasks[h].next <= Len(tasks[h].event.request.payloads)
    /\ LET t == tasks[h]
           f == apply_payload(fold_state(t), t.event.request.payloads[t.next],
                              t.event.request.meta)
       IN /\ timeline' = f.timeline
          /\ locks' = f.locks
          /\ current_screen' = f.current_screen
          /\ tasks' = [tasks EXCEPT ![h] =
                          [with_locals(t, f) EXCEPT !.next = t.next + 1]]
    /\ UNCHANGED <<next_id, work, op, req, ret, before, guard, serial, seen, sink, ui_vars>>

ApplyPending(h) ==
    /\ tasks[h].pc = "folding"
    /\ tasks[h].next > Len(tasks[h].event.request.payloads)
    /\ LET t == tasks[h]
           f == apply_pending(fold_state(t))
       IN /\ timeline' = f.timeline
          /\ tasks' = [tasks EXCEPT ![h] =
                          [with_locals(t, f) EXCEPT
                              !.event = inherit_screen(f.event, f.current_screen),
                              !.pc = "applied"]]
    /\ UNCHANGED <<locks, current_screen, next_id, work, op, req, ret, before,
                   guard, serial, seen, sink, ui_vars>>

Merge(h) ==
    /\ tasks[h].pc = "applied"
    /\ tasks[h].outcome = "Record"
    /\ LET merged == merge_previous_log_into_context(inner, tasks[h].event)
       IN /\ timeline' = merged.inner.timeline
          /\ tasks' = [tasks EXCEPT ![h] =
                          [@ EXCEPT !.event = merged.event, !.pc = "merged"]]
    /\ UNCHANGED <<locks, current_screen, next_id, work, op, req, ret, before,
                   guard, serial, seen, sink, ui_vars>>

\* return None: the write guard is dropped on the way out.
Skip(h) ==
    /\ tasks[h].pc = "applied"
    /\ tasks[h].outcome = "Skip"
    /\ guard' = [guard EXCEPT !.writer = None]
    /\ tasks' = [tasks EXCEPT ![h] = [@ EXCEPT !.ret = None, !.pc = "returned"]]
    /\ UNCHANGED <<store_vars, serial, seen, sink, ui_vars>>

Push(h) ==
    /\ tasks[h].pc = "merged"
    /\ LET stored_event == inherit_screen(tasks[h].event, current_screen)
       IN /\ timeline' = push_back(timeline, stored_event)
          /\ tasks' = [tasks EXCEPT ![h] =
                          [@ EXCEPT !.event = stored_event, !.pc = "pushed"]]
    /\ UNCHANGED <<locks, current_screen, next_id, work, op, req, ret, before,
                   guard, serial, seen, sink, ui_vars>>

Evict(h) ==
    /\ tasks[h].pc = "pushed"
    /\ timeline' = pop_front_over_retention(timeline)
    /\ tasks' = [tasks EXCEPT ![h] = [@ EXCEPT !.pc = "stored"]]
    /\ UNCHANGED <<locks, current_screen, next_id, work, op, req, ret, before,
                   guard, serial, seen, sink, ui_vars>>

Unlock(h) ==
    /\ tasks[h].pc = "stored"
    /\ guard' = [guard EXCEPT !.writer = None]
    /\ tasks' = [tasks EXCEPT ![h] =
                    [@ EXCEPT !.in_at_unlock = in_timeline(tasks[h].event.id),
                              !.pc = "unlocked"]]
    /\ UNCHANGED <<store_vars, serial, seen, sink, ui_vars>>

Log(h) ==
    /\ tasks[h].pc = "unlocked"
    /\ log_ready(sink)
    /\ sink' = IF sink.logger
               THEN PayloadLogger_log(sink, [id |-> tasks[h].event.id,
                                             request |-> tasks[h].event.request])
               ELSE sink
    /\ tasks' = [tasks EXCEPT ![h] =
                    [@ EXCEPT !.log_under_lock = (guard.writer = Some(h)),
                              !.pc = "logged"]]
    /\ UNCHANGED <<store_vars, guard, serial, seen, ui_vars>>

Return(h) ==
    /\ tasks[h].pc = "logged"
    /\ tasks' = [tasks EXCEPT ![h] =
                    [@ EXCEPT !.ret = Some(tasks[h].event),
                              !.in_at_return = in_timeline(tasks[h].event.id),
                              !.pc = "returned"]]
    /\ UNCHANGED <<store_vars, guard, serial, seen, sink, ui_vars>>

Respond(h) ==
    /\ tasks[h].pc = "returned"
    /\ tasks' = [tasks EXCEPT ![h] =
                    [@ EXCEPT !.response = ingest_response(tasks[h].ret),
                              !.pc = "idle"]]
    /\ UNCHANGED <<store_vars, guard, serial, seen, sink, ui_vars>>

\* The steps of a task that has a request in hand.
Proceed(h) ==
    \/ AcquireWrite(h)
    \/ ApplyPayload(h)
    \/ ApplyPending(h)
    \/ Merge(h)
    \/ Skip(h)
    \/ Push(h)
    \/ Evict(h)
    \/ Unlock(h)
    \/ Log(h)
    \/ Return(h)
    \/ Respond(h)

Ingest(handlers, requests) ==
    \E h \in handlers :
        \/ \E request \in requests : Receive(h, request)
        \/ Proceed(h)

\* A reader (timeline_snapshot) takes the read lock, clones the timeline
\* and lets the lock go.
ReadLock ==
    /\ read_available(guard)
    /\ guard.readers = 0
    /\ guard' = [guard EXCEPT !.readers = 1]
    /\ seen' = timeline_snapshot(inner)
    /\ UNCHANGED <<store_vars, tasks, serial, sink, ui_vars>>

ReadUnlock ==
    /\ guard.readers = 1
    /\ guard' = [guard EXCEPT !.readers = 0]
    /\ seen' = <<>>
    /\ UNCHANGED <<store_vars, tasks, serial, sink, ui_vars>>

\* The writer task of the debug sink.
OpenFile ==
    /\ sink.task = "opening"
    /\ \E opened \in BOOLEAN :
           sink' = [sink EXCEPT !.task = IF opened THEN "writing" ELSE "draining"]
    /\ UNCHANGED <<store_vars, tasks, guard, serial, seen, ui_vars>>

WriteDump ==
    /\ sink.task = "writing"
    /\ sink.channel # <<>>
    /\ \E written \in BOOLEAN :
           sink' = IF written
                   THEN [sink EXCEPT !.file = Append(@, Head(sink.channel)),
                                     !.channel = Tail(@)]
                   ELSE [sink EXCEPT !.task = "stopped", !.channel = <<>>]
    /\ UNCHANGED <<store_vars, tasks, guard, serial, seen, ui_vars>>

Drain ==
    /\ sink.task = "draining"
    /\ sink.channel # <<>>
    /\ sink' = [sink EXCEPT !.channel = Tail(@)]
    /\ UNCHANGED <<store_vars, tasks, guard, serial, seen, ui_vars>>

\* Concurrent handlers and a reader, no debug sink.
IngestRequests ==
    {[payloads |-> <<pLog>>, meta |-> mEmpty],
     [payloads |-> <<pTrace>>, meta |-> mEmpty],
     [payloads |-> <<pHide, pColorRed>>, meta |-> mEmpty]}

NextIngest ==
    \/ Ingest(Handlers, IngestRequests)
    \/ ReadLock
    \/ ReadUnlock

SpecIngest == Init /\ [][NextIngest]_vars

\* One handler against a debug sink whose writer task may fail or lag.
SinkRequests ==
    {[payloads |-> <<pLog>>, meta |-> mEmpty],
     [payloads |-> <<pHide>>, meta |-> mEmpty]}

NextSink ==
    \/ Ingest({"a"}, SinkRequests)
    \/ OpenFile
    \/ WriteDump
    \/ Drain

SpecSink == InitSink /\ [][NextSink]_vars

\* One handler folding requests of tags, pops and clears step by step.
FoldPayloads == {pLog, pTrace, pColorRed, pLabelX, pHide, pClearAll}

NextFold == Ingest({"a"}, Requests(FoldPayloads, {mEmpty}))

SpecFold == Init /\ [][NextFold]_vars

(***************************************************************************)
(* The detail pane: visible lines, the per-event detail state and the keys *)
(* that work on it.                                                        *)
(***************************************************************************)
min(a, b) == IF a < b THEN a ELSE b

saturating_sub(a, b) == IF a > b THEN a - b ELSE 0

\* A variant of the walk below that takes any deeper line for a child.
has_deeper_line(lines, current_indent, walker) ==
    walker < Len(lines) /\ lines[walker + 1] > current_indent

\* The while loop of compute_has_children for one line: walk forward to the
\* first line that is no deeper, or to a line exactly one level deeper.
RECURSIVE has_child_walk(_, _, _)
has_child_walk(lines, current_indent, walker) ==
    IF walker >= Len(lines) THEN FALSE
    ELSE LET next_indent == lines[walker + 1]
         IN IF next_indent <= current_indent THEN FALSE
            ELSE IF next_indent = current_indent + 1 THEN TRUE
            ELSE has_child_walk(lines, current_indent, walker + 1)

compute_has_children(lines) ==
    [i \in 1..Len(lines) |-> has_child_walk(lines, lines[i], i)]

\* A variant of the loop below that hides nothing.
visible_loop_showing_all(lines, collapsed, has_children, index, visible, hidden_indent) ==
    [i \in 1..Len(lines) |-> i - 1]

\* The for loop of visible_indices_with_children, from line `index` on.
RECURSIVE visible_loop(_, _, _, _, _, _)
visible_loop(lines, collapsed, has_children, index, visible, hidden_indent) ==
    IF index >= Len(lines) THEN visible
    ELSE LET indent == lines[index + 1]
         IN IF is_some(hidden_indent) /\ indent > unwrap(hidden_indent)
            THEN visible_loop(lines, collapsed, has_children, index + 1,
                              visible, hidden_indent)
            ELSE LET is_collapsed ==
                         IF is_some(collapsed) THEN index \in unwrap(collapsed)
                         ELSE FALSE
                 IN visible_loop(lines, collapsed, has_children, index + 1,
                                 Append(visible, index),
                                 IF has_children[index + 1] /\ is_collapsed
                                 THEN Some(indent) ELSE None)

\* A variant of visible_indices_with_children that leaves the collapsed
\* set out of account.
visible_indices_uncollapsed(lines, collapsed) ==
    [visible_indices |-> [i \in 1..Len(lines) |-> i - 1],
     has_children |-> compute_has_children(lines)]

visible_indices_with_children(lines, collapsed) ==
    LET has_children == compute_has_children(lines)
    IN [visible_indices |-> visible_loop(lines, collapsed, has_children, 0, <<>>, None),
        has_children |-> has_children]

DetailContext_new(lines, collapsed) == visible_indices_with_children(lines, collapsed)

visible_len(c) == Len(c.visible_indices)

\* build_view_model, the part on the selected event's detail state: the
\* cursor and the scroll are clamped to the visible lines.
build_view_model(a, lines) ==
    LET entry == a.detail_state
        visible == visible_indices_with_children(lines, Some(entry.collapsed))
        max == saturating_sub(visible_len(visible), 1)
        clamped == IF visible_len(visible) = 0
                   THEN [entry EXCEPT !.scroll = 0, !.cursor = 0]
                   ELSE [entry EXCEPT !.scroll = min(@, max), !.cursor = min(@, max)]
    IN [a EXCEPT !.detail_state = clamped, !.detail_scroll = clamped.scroll]

store_detail_state(a, detail_len) ==
    IF detail_len = 0
    THEN [a EXCEPT !.detail_state.scroll = 0, !.detail_state.cursor = 0,
                   !.detail_scroll = 0]
    ELSE LET max == saturating_sub(detail_len, 1)
         IN [a EXCEPT !.detail_state.scroll = min(a.detail_scroll, max),
                      !.detail_state.cursor = min(@, max),
                      !.detail_scroll = min(a.detail_scroll, max)]

\* The line under the cursor and whether it has children.
cursor_line(a, c) ==
    c.visible_indices[min(a.detail_state.cursor, saturating_sub(visible_len(c), 1)) + 1]

line_has_children(c, line_index) ==
    IF line_index < Len(c.has_children) THEN c.has_children[line_index + 1] ELSE FALSE

\* A variant of toggle_current_node that collapses and never expands.
toggle_collapsing_only(a, c) ==
    IF visible_len(c) = 0 \/ ~line_has_children(c, cursor_line(a, c))
    THEN [app |-> a, changed |-> FALSE]
    ELSE [app |-> [a EXCEPT !.detail_state.collapsed = @ \cup {cursor_line(a, c)}],
          changed |-> TRUE]

toggle_current_node(a, c) ==
    IF visible_len(c) = 0 THEN [app |-> a, changed |-> FALSE]
    ELSE LET line_index == cursor_line(a, c)
             scroll == min(a.detail_state.cursor, saturating_sub(visible_len(c), 1))
         IN IF line_has_children(c, line_index)
            THEN [app |-> [a EXCEPT
                              !.detail_state.collapsed =
                                  IF line_index \in @ THEN @ \ {line_index}
                                  ELSE @ \cup {line_index},
                              !.detail_state.scroll = scroll,
                              !.detail_scroll = scroll],
                  changed |-> TRUE]
            ELSE [app |-> a, changed |-> FALSE]

expand_current_node(a, c) ==
    IF visible_len(c) = 0 THEN [app |-> a, changed |-> FALSE]
    ELSE LET line_index == cursor_line(a, c)
             scroll == min(a.detail_state.cursor, saturating_sub(visible_len(c), 1))
             removed == line_has_children(c, line_index)
                            /\ line_index \in a.detail_state.collapsed
         IN [app |-> [a EXCEPT !.detail_state.collapsed =
                                   IF removed THEN @ \ {line_index} ELSE @,
                               !.detail_state.scroll = scroll,
                               !.detail_scroll = scroll],
             changed |-> removed]

\* The search of collapse_current_node: the position of the last visible
\* line before the cursor that is less indented than the line under it.
parent_position(lines, c, cursor, indent) ==
    LET found == {pos \in 0..(cursor - 1) :
                      lines[c.visible_indices[pos + 1] + 1] < indent}
    IN IF found = {} THEN None
       ELSE Some(CHOOSE pos \in found : \A other \in found : other <= pos)

\* A variant of collapse_current_node that folds the line under the cursor
\* whether or not it has children.
collapse_any_line(a, c, lines) ==
    IF visible_len(c) = 0 THEN [app |-> a, changed |-> FALSE]
    ELSE [app |-> [a EXCEPT !.detail_state.collapsed = @ \cup {cursor_line(a, c)}],
          changed |-> TRUE]

collapse_current_node(a, c, lines) ==
    IF visible_len(c) = 0 THEN [app |-> a, changed |-> FALSE]
    ELSE LET cursor == min(a.detail_state.cursor, saturating_sub(visible_len(c), 1))
             line_index == c.visible_indices[cursor + 1]
             indent == lines[line_index + 1]
             parent == parent_position(lines, c, cursor, indent)
             stay == [a EXCEPT !.detail_state.scroll = cursor,
                               !.detail_scroll = cursor]
             jump == [a EXCEPT !.detail_state.cursor = unwrap(parent),
                               !.detail_state.scroll = unwrap(parent),
                               !.detail_scroll = unwrap(parent)]
         IN [app |-> IF line_has_children(c, line_index)
                     THEN IF line_index \in a.detail_state.collapsed
                          THEN IF is_some(parent) THEN jump ELSE stay
                          ELSE [stay EXCEPT !.detail_state.collapsed =
                                                @ \cup {line_index}]
                     ELSE IF indent > 0 /\ is_some(parent) THEN jump ELSE stay,
             changed |-> TRUE]

advance_detail_cursor(a, delta, c) ==
    IF visible_len(c) = 0
    THEN [a EXCEPT !.detail_scroll = 0, !.detail_state.cursor = 0,
                   !.detail_state.scroll = 0]
    ELSE LET max == visible_len(c) - 1
             moved == a.detail_state.cursor + delta
             new_cursor == IF moved < 0 THEN 0 ELSE min(moved, max)
         IN [a EXCEPT !.detail_state.cursor = new_cursor,
                      !.detail_state.scroll = new_cursor,
                      !.detail_scroll = new_cursor]

\* handle_event for the keys of the detail pane (no overlay is open).
on_space(a, c) ==
    IF a.focus = "Detail"
    THEN LET toggled == toggle_current_node(a, c)
         IN IF toggled.changed THEN store_detail_state(toggled.app, visible_len(c))
            ELSE toggled.app
    ELSE a

on_right(a, c) ==
    IF a.focus = "Detail"
    THEN LET expanded == expand_current_node(a, c)
         IN IF expanded.changed THEN store_detail_state(expanded.app, visible_len(c))
            ELSE expanded.app
    ELSE a

on_left(a, c, lines) ==
    IF a.focus = "Detail"
    THEN LET folded == collapse_current_node(a, c, lines)
         IN IF folded.changed THEN store_detail_state(folded.app, visible_len(c))
            ELSE folded.app
    ELSE a

\* End with the focus on the detail pane.
on_end(a, c) ==
    IF a.focus = "Detail" /\ visible_len(c) > 0
    THEN LET max == saturating_sub(visible_len(c), 1)
         IN [a EXCEPT !.detail_state.cursor = max, !.detail_state.scroll = max,
                      !.detail_scroll = max]
    ELSE a

on_tab(a, c) ==
    [a EXCEPT !.focus = IF @ = "Timeline" THEN "Detail" ELSE "Timeline",
              !.detail_scroll = min(a.detail_state.scroll,
                                    saturating_sub(visible_len(c), 1))]

\* One turn of the loop of RaygunApp::run: the key is handled with the
\* context of the frame on screen, then the next frame is built.  keys
\* keeps the last two keys with what they found.
Turn(key, handled) ==
    /\ app' = build_view_model(handled, detail)
    /\ ctx' = DetailContext_new(detail, Some(app'.detail_state.collapsed))
    /\ keys' = LET entry == [key |-> key,
                             collapsed |-> app.detail_state.collapsed,
                             visible |-> ctx.visible_indices]
               IN IF Len(keys) < 2 THEN Append(keys, entry) ELSE <<keys[2], entry>>
    /\ UNCHANGED <<store_vars, ingest_vars, detail, list, cycle, spawned, preview, run, view>>

PressSpace == Turn("Space", on_space(app, ctx))

PressTab == Turn("Tab", on_tab(app, ctx))


\* Up and Down with the focus on the detail pane.
PressArrow ==
    /\ app.focus = "Detail"
    /\ \E delta \in {-1, 1} :
           Turn(IF delta = 1 THEN "Down" ELSE "Up",
                advance_detail_cursor(app, delta, ctx))

\* The line lists: every list of up to MaxLines indents up to MaxIndent.
LineLists == SeqsUpTo(0..MaxIndent, MaxLines)

\* The app with one event selected, after its first frame.
InitDetail ==
    /\ with_debug_logger(PayloadLogger_none)
    /\ detail \in LineLists
    /\ app = build_view_model(RaygunApp_bootstrap, detail)
    /\ ctx = DetailContext_new(detail, Some(app.detail_state.collapsed))
    /\ keys = <<>>
    /\ list = RaygunApp_list
    /\ cycle = NoCycle
    /\ spawned = 0
    /\ preview = NoPreview
    /\ run = RaygunApp_run
    /\ view = NoView

NextDetail == PressSpace \/ PressTab \/ PressArrow

SpecDetail == InitDetail /\ [][NextDetail]_vars

\* The keys that fold and unfold the tree of the detail pane.  keys keeps
\* the last key with what it found.
Fold(key, handled) ==
    /\ app' = build_view_model(handled, detail)
    /\ ctx' = DetailContext_new(detail, Some(app'.detail_state.collapsed))
    /\ keys' = <<[key |-> key,
                  collapsed |-> app.detail_state.collapsed,
                  visible |-> ctx.visible_indices]>>
    /\ UNCHANGED <<store_vars, ingest_vars, detail, list, cycle, spawned, preview, run, view>>

FoldSpace == Fold("Space", on_space(app, ctx))

FoldTab == Fold("Tab", on_tab(app, ctx))

PressRight == Fold("Right", on_right(app, ctx))

PressLeft == Fold("Left", on_left(app, ctx, detail))

PressEnd ==
    /\ app.focus = "Detail"
    /\ Fold("End", on_end(app, ctx))

FoldArrow ==
    /\ app.focus = "Detail"
    /\ \E delta \in {-1, 1} :
           Fold(IF delta = 1 THEN "Down" ELSE "Up",
                advance_detail_cursor(app, delta, ctx))

NextTree == FoldSpace \/ FoldTab \/ FoldArrow \/ PressRight \/ PressLeft \/ PressEnd

SpecTree == InitDetail /\ [][NextTree]_vars

\* visible_indices_with_children as a function: any line list, any
\* collapsed set, one call.
InitVisible ==
    /\ with_debug_logger(PayloadLogger_none)
    /\ detail \in LineLists
    /\ \E collapsed \in SUBSET (0..(MaxLines - 1)) :
           app = [RaygunApp_bootstrap EXCEPT !.detail_state.collapsed = collapsed]
    /\ ctx = DetailContext_empty
    /\ keys = <<>>
    /\ list = RaygunApp_list
    /\ cycle = NoCycle
    /\ spawned = 0
    /\ preview = NoPreview
    /\ run = RaygunApp_run
    /\ view = NoView

Render ==
    /\ keys = <<>>
    /\ ctx' = visible_indices_with_children(detail, Some(app.detail_state.collapsed))
    /\ keys' = <<[key |-> "Render", collapsed |-> app.detail_state.collapsed,
                  visible |-> ctx.visible_indices]>>
    /\ UNCHANGED <<store_vars, ingest_vars, detail, app, list, cycle, spawned, preview,
                   run, view>>

NextVisible == Render

SpecVisible == InitVisible /\ [][NextVisible]_vars

(***************************************************************************)
(* The timeline pane: the window of events on screen, the color filter,    *)
(* the selection and the DetailState of every event.  list.detail_states   *)
(* is the map from event ids to DetailStates; app.detail_state is the      *)
(* entry of the current event while a key is handled (the default state    *)
(* when no event is current).  No overlay (help, raw payload) is open.     *)
(***************************************************************************)
\* The most recent events a frame shows.
TIMELINE_VIEW_LIMIT == 200

\* into_iter().rev().collect() and Vec::truncate.
rev(seq) == [i \in 1..Len(seq) |-> seq[Len(seq) + 1 - i]]

\* A variant of truncate that keeps everything.
truncate_nothing(seq, len) == seq

truncate(seq, len) == IF Len(seq) > len THEN SubSeq(seq, 1, len) ELSE seq

\* The order of String: character by character, by code point.
Letters ==
    <<"a", "b", "c", "d", "e", "f", "g", "h", "i", "j", "k", "l", "m",
      "n", "o", "p", "q", "r", "s", "t", "u", "v", "w", "x", "y", "z">>

code_point(c) == CHOOSE i \in DOMAIN Letters : Letters[i] = c

RECURSIVE str_lt(_, _)
str_lt(a, b) ==
    IF a = <<>> THEN b # <<>>
    ELSE IF b = <<>> THEN FALSE
    ELSE IF a[1] = b[1] THEN str_lt(Tail(a), Tail(b))
    ELSE code_point(a[1]) < code_point(b[1])

\* BTreeSet::into_iter().collect(): the members in ascending order.
RECURSIVE into_sorted(_)
into_sorted(set) ==
    IF set = {} THEN <<>>
    ELSE LET least == CHOOSE x \in set : \A y \in set : x = y \/ str_lt(x, y)
         IN <<least>> \o into_sorted(set \ {least})

\* The indents of the lines of build_detail_view_for_event: the tree
\* ui/detail.rs renders from the primary payload is a header with two nested
\* values here, and the single line of the code when there is no payload.
build_detail_view_for_event(event) ==
    IF event.request.payloads = <<>> THEN <<0>> ELSE <<0, 1, 1>>

current_event_id(l) ==
    IF is_some(l.selected) /\ unwrap(l.selected) < Len(l.visible_events)
    THEN Some(l.visible_events[unwrap(l.selected) + 1])
    ELSE None

\* detail_states.get(&id), and entry(id).or_default().
current_detail_state(l) ==
    LET id == current_event_id(l)
    IN IF is_some(id) /\ unwrap(id) \in DOMAIN l.detail_states
       THEN Some(l.detail_states[unwrap(id)])
       ELSE None

entry_or_default(l) ==
    IF is_some(current_detail_state(l)) THEN unwrap(current_detail_state(l))
    ELSE DetailState_default

\* The entry of the current event is what the handler left in
\* app.detail_state; nothing is written when no event is current.
write_entry(a, l) ==
    IF is_some(current_event_id(l))
    THEN [l EXCEPT !.detail_states =
                       map_insert(@, unwrap(current_event_id(l)), a.detail_state)]
    ELSE l

\* A variant of the clamp below that leaves the selection as the keys left it.
selection_kept(selected, len) == selected

\* The selection of a frame over len rows: none without rows, and the
\* previous one (row 0 if there was none) clamped to the last row otherwise.
clamp_selection(selected, len) ==
    IF len = 0 THEN None
    ELSE Some(min(IF is_some(selected) THEN unwrap(selected) ELSE 0,
                  saturating_sub(len, 1)))

\* build_view_model up to visible_events: the window, the colors, the
\* filter and the selection.
build_window(a, l, events) ==
    LET window == truncate(rev(events), TIMELINE_VIEW_LIMIT)
        available_colors ==
            into_sorted({unwrap(window[i].color) :
                             i \in {j \in DOMAIN window : is_some(window[j].color)}})
        color_filter ==
            IF is_some(l.color_filter)
               /\ ~\E i \in DOMAIN available_colors :
                       available_colors[i] = unwrap(l.color_filter)
            THEN None ELSE l.color_filter
        ordered_events ==
            IF is_some(color_filter)
            THEN SelectSeq(window, LAMBDA event : event.color = color_filter)
            ELSE window
        selected == clamp_selection(l.selected, Len(ordered_events))
    IN [app |-> [a EXCEPT !.detail_scroll =
                              IF ordered_events = <<>> \/ selected # l.selected
                              THEN 0 ELSE @],
        list |-> [selected |-> selected,
                  visible_events |->
                      [i \in DOMAIN ordered_events |-> ordered_events[i].id],
                  detail_states |-> l.detail_states,
                  color_filter |-> color_filter,
                  available_colors |-> available_colors],
        detail |-> IF selected = None THEN None
                   ELSE Some(build_detail_view_for_event(
                                 ordered_events[unwrap(selected) + 1]))]

\* build_view_model as a whole: the window, then the DetailState of the
\* current event, created if absent and clamped to its visible lines.
framed(l, lines, clamped) ==
    [app |-> clamped, list |-> write_entry(clamped, l), detail |-> lines,
     ctx |-> DetailContext_new(lines, Some(clamped.detail_state.collapsed))]

frame_of(built) ==
    IF is_some(current_event_id(built.list))
    THEN framed(built.list, unwrap(built.detail),
                build_view_model(
                    [built.app EXCEPT !.detail_state = entry_or_default(built.list)],
                    unwrap(built.detail)))
    ELSE [app |-> [built.app EXCEPT !.detail_scroll = 0,
                                    !.detail_state = DetailState_default],
          list |-> built.list, detail |-> <<>>, ctx |-> DetailContext_empty]

build_frame(a, l, events) == frame_of(build_window(a, l, events))

move_selection(l, delta, len) ==
    IF len = 0 THEN [list |-> [l EXCEPT !.selected = None], changed |-> FALSE]
    ELSE LET current == IF is_some(l.selected) THEN unwrap(l.selected) ELSE 0
             moved == current + delta
             new_index == IF moved < 0 THEN 0 ELSE min(moved, saturating_sub(len, 1))
         IN [list |-> [l EXCEPT !.selected = Some(new_index)],
             changed |-> l.selected # Some(new_index)]

\* A variant of cycle_color_filter that starts over after any color.
cycle_to_first(a, l) ==
    IF l.available_colors = <<>>
    THEN [app |-> a, list |-> [l EXCEPT !.color_filter = None]]
    ELSE [app |-> [a EXCEPT !.detail_scroll = 0],
          list |-> [l EXCEPT !.color_filter =
                                 IF @ = None THEN Some(l.available_colors[1]) ELSE None,
                             !.selected = Some(0)]]

cycle_color_filter(a, l) ==
    IF l.available_colors = <<>>
    THEN [app |-> a, list |-> [l EXCEPT !.color_filter = None]]
    ELSE LET colors == l.available_colors
             positions == {i \in DOMAIN colors :
                               colors[i] = unwrap(l.color_filter)}
             next ==
                 IF l.color_filter = None THEN Some(colors[1])
                 ELSE IF positions # {}
                 THEN LET position == (CHOOSE i \in positions :
                                           \A j \in positions : i <= j) - 1
                      IN IF position + 1 < Len(colors)
                         THEN Some(colors[position + 2]) ELSE None
                 ELSE Some(colors[1])
         IN [app |-> [a EXCEPT !.detail_scroll = 0],
             list |-> [l EXCEPT !.color_filter = next, !.selected = Some(0)]]

\* A variant of clear_local_timeline that keeps the detail states.
clear_keeping_detail_states(a, l) ==
    [app |-> [a EXCEPT !.detail_scroll = 0, !.detail_state = DetailState_default],
     list |-> [RaygunApp_list EXCEPT !.detail_states = l.detail_states]]

\* clear_local_timeline, the fields of RaygunApp; the spawned task is
\* SpawnedClear below.
clear_local_timeline(a, l) ==
    [app |-> [a EXCEPT !.detail_scroll = 0, !.detail_state = DetailState_default],
     list |-> [selected |-> None, visible_events |-> <<>>, detail_states |-> <<>>,
               color_filter |-> None, available_colors |-> <<>>]]

\* handle_event for the keys that work on the app as a whole.  The handlers
\* of the detail pane are those above, on the entry of the current event.
on_filter(a, l, c) ==
    LET stored == store_detail_state(a, visible_len(c))
    IN cycle_color_filter(stored, write_entry(stored, l))

on_arrow(a, l, delta, c) ==
    IF a.focus = "Timeline"
    THEN LET stored == store_detail_state(a, visible_len(c))
             moved == move_selection(write_entry(stored, l), delta,
                                     Len(l.visible_events))
         IN [app |-> IF moved.changed
                     THEN [stored EXCEPT
                               !.detail_scroll =
                                   IF is_some(current_detail_state(moved.list))
                                   THEN unwrap(current_detail_state(moved.list)).scroll
                                   ELSE 0]
                     ELSE stored,
             list |-> moved.list]
    ELSE LET advanced == advance_detail_cursor(a, delta, c)
         IN [app |-> advanced, list |-> write_entry(advanced, l)]

on_detail_key(handled, l) == [app |-> handled, list |-> write_entry(handled, l)]

\* One turn of the loop of RaygunApp::run on the whole app: the event is
\* handled with the frame on screen, then the next frame is built from the
\* store as it is now.  keys keeps the last key with what it found: the
\* collapsed lines and the visible lines of the current event, and the filter.
Show(frame) ==
    /\ app' = frame.app
    /\ list' = frame.list
    /\ detail' = frame.detail
    /\ ctx' = frame.ctx

Frame(handled) ==
    Show(build_frame(handled.app, handled.list, timeline_snapshot(inner)))

\* cycle: the timeline the frame on screen was built from, and the run of
\* filter keys in progress on it: the filter and the colors the first key
\* found and the filter every key of the run left.  Any other key, and a
\* frame built from another timeline, end the run.
no_run(snapshot) == [NoCycle EXCEPT !.shown = snapshot]

KeyTurn(key, handled) ==
    /\ Frame(handled)
    /\ keys' = <<[key |-> key, collapsed |-> app.detail_state.collapsed,
                  visible |-> ctx.visible_indices, filter |-> list.color_filter]>>
    /\ cycle' = no_run(timeline)
    /\ UNCHANGED <<ingest_vars, preview, run, view>>

\* Event::Tick: nothing is handled, the frame is rebuilt.
Tick ==
    /\ Frame([app |-> app, list |-> list])
    /\ cycle' = IF timeline = cycle.shown THEN cycle ELSE no_run(timeline)
    /\ UNCHANGED <<store_vars, ingest_vars, keys, spawned, preview, run, view>>

PressFilter ==
    /\ Frame(on_filter(app, list, ctx))
    /\ keys' = <<[key |-> "f", collapsed |-> app.detail_state.collapsed,
                  visible |-> ctx.visible_indices, filter |-> list.color_filter]>>
    /\ LET presses ==
               IF cycle.filters = <<>> \/ Len(cycle.filters) > Len(cycle.colors)
               THEN [shown |-> cycle.shown, start |-> list.color_filter,
                     colors |-> list.available_colors, filters |-> <<>>]
               ELSE cycle
       IN cycle' = IF timeline = presses.shown
                   THEN [presses EXCEPT !.filters = Append(@, list'.color_filter)]
                   ELSE no_run(timeline)
    /\ UNCHANGED <<store_vars, ingest_vars, spawned, preview, run, view>>

\* Ctrl-K: the fields are reset at once, the store is cleared by a task
\* spawned on the runtime, which runs when the runtime schedules it.
PressClear ==
    /\ work + 1 <= MaxWork
    /\ work' = work + 1
    /\ spawned' = spawned + 1
    /\ KeyTurn("Ctrl-K", clear_local_timeline(app, list))
    /\ UNCHANGED <<timeline, locks, current_screen, next_id, op, req, ret, before>>

SpawnedClear ==
    /\ spawned > 0
    /\ spawned' = spawned - 1
    /\ timeline' = clear_timeline(inner).timeline
    /\ current_screen' = clear_timeline(inner).current_screen
    /\ locks' = clear_timeline(inner).locks
    /\ before' = inner
    /\ op' = "clear_timeline"
    /\ req' = NoRequest
    /\ ret' = None
    /\ UNCHANGED <<next_id, work, ingest_vars, detail, app, list, ctx, keys, cycle,
                   preview, run, view>>

PressMove ==
    \E delta \in {-1, 1} :
        /\ KeyTurn(IF delta = 1 THEN "Down" ELSE "Up", on_arrow(app, list, delta, ctx))
        /\ UNCHANGED <<store_vars, spawned>>

PressToggle ==
    /\ KeyTurn("Space", on_detail_key(on_space(app, ctx), list))
    /\ UNCHANGED <<store_vars, spawned>>

PressFocus ==
    /\ KeyTurn("Tab", on_detail_key(on_tab(app, ctx), list))
    /\ UNCHANGED <<store_vars, spawned>>

\* Events of either color, of the empty color or of none, tagged by
\* requests of their own, and the filter key.
FilterRequests ==
    {[payloads |-> <<p>>, meta |-> mEmpty] :
         p \in {pLog, pColorRed, pColorBlue, pColorEmpty}}

NextFilter ==
    \/ \E request \in FilterRequests : RecordRequest(request)
    \/ Tick
    \/ PressFilter

SpecFilter == Init /\ [][NextFilter]_vars

\* Events of either color, every key, and Ctrl-K with its task.
ClearRequests ==
    {[payloads |-> <<pLog, p>>, meta |-> mEmpty] : p \in {pColorRed, pColorBlue}}

NextClear ==
    \/ \E request \in ClearRequests : RecordRequest(request)
    \/ Tick
    \/ PressFilter
    \/ PressClear
    \/ SpawnedClear
    \/ PressMove
    \/ PressToggle
    \/ PressFocus

SpecClear == Init /\ [][NextClear]_vars

\* build_view_model in its two reads of the store: the snapshot, from
\* which the rows are made, and timeline_len for total_events, each under a
\* read lock of its own.
BuildRows ==
    /\ view.pc = "idle"
    /\ Frame([app |-> app, list |-> list])
    /\ view' = [view EXCEPT !.pc = "built",
                            !.timeline = list'.visible_events,
                            !.taken_from = Len(timeline_snapshot(inner))]
    /\ UNCHANGED <<store_vars, ingest_vars, keys, cycle, spawned, preview, run>>

ReadLen ==
    /\ view.pc = "built"
    /\ view' = [view EXCEPT !.pc = "idle", !.total_events = timeline_len(inner)]
    /\ UNCHANGED <<store_vars, ingest_vars, detail, app, list, ctx, keys, cycle,
                   spawned, preview, run>>

\* Requests and clears reach the store from the server's tasks at any time.
FrameRequests == {[payloads |-> <<pLog>>, meta |-> mEmpty]}

NextFrame ==
    \/ \E request \in FrameRequests : RecordRequest(request)
    \/ ClearTimeline
    \/ BuildRows
    \/ ReadLen

SpecFrame == Init /\ [][NextFrame]_vars

\* Frames over a long timeline: a store of DEFAULT_RETENTION holds events
\* 1 .. n, the oldest of a color of its own and the others colored in turn
\* from a palette; the app has drawn nothing yet.
Palettes ==
    {<<None>>, <<Some(<<"r">>)>>, <<Some(<<"r">>), Some(<<>>)>>,
     <<Some(<<"b">>), None, Some(<<"r">>)>>}

colored(n, oldest, palette) ==
    [i \in 1..n |->
        [TimelineEvent_new(i, [payloads |-> <<pLog>>, meta |-> mEmpty], None)
             EXCEPT !.color = IF i = 1 THEN oldest
                              ELSE palette[(i % Len(palette)) + 1]]]

InitWindow ==
    /\ \E n \in 0..MaxEvents, oldest \in {None, Some(<<"b">>)}, palette \in Palettes :
           timeline = colored(n, oldest, palette)
    /\ locks = StateInner_default.locks
    /\ current_screen = StateInner_default.current_screen
    /\ next_id = Len(timeline) + 1
    /\ work = 0
    /\ op = "new"
    /\ req = NoRequest
    /\ ret = None
    /\ before = inner
    /\ tasks = [h \in Handlers |-> IdleTask]
    /\ guard = RwLock_new
    /\ serial = StateInner_default
    /\ seen = <<>>
    /\ sink = PayloadLogger_none
    /\ bootstrap

NextWindow == Tick \/ PressFilter

SpecWindow == InitWindow /\ [][NextWindow]_vars

(***************************************************************************)
(* Shutdown: RaygunApp::run from the loop to its return, the task of       *)
(* spawn_event_loop, and the HTTP server under ServerHandle::shutdown.     *)
(* An event is "quit" (q, Q or Ctrl-C, to which handle_event answers       *)
(* true), "other" (any event it answers false to) or "tick".               *)
(***************************************************************************)
\* The seconds ServerHandle::shutdown waits for the server task.
SHUTDOWN_TIMEOUT == 2

\* A variant of send that never reports the closed channel.
send_unchecked(r, event) == [r EXCEPT !.input = "tick"]

\* tx.send(event) in the event loop: the loop breaks when the receiver is
\* gone and goes on to the tick test otherwise.
send(r, event) ==
    IF r.rx = "dropped" THEN [r EXCEPT !.input = "exited"]
    ELSE [r EXCEPT !.channel = Append(@, event), !.input = "tick"]

\* A variant of the tick test that resets last_tick without sending.
tick_unsent(r) == [r EXCEPT !.due = FALSE, !.input = "poll"]

\* The tick test at the end of the loop body.
tick(r) ==
    IF r.due
    THEN LET sent == send(r, "tick")
         IN IF sent.input = "exited" THEN sent
            ELSE [sent EXCEPT !.due = FALSE, !.input = "poll"]
    ELSE [r EXCEPT !.input = "poll"]

run_vars == <<store_vars, ingest_vars, detail, app, list, ctx, keys, cycle, spawned,
              preview, view>>

\* event::poll(timeout) and what follows it: an event that is forwarded, an
\* event that is not, the timeout (tick_rate has elapsed by then), or an
\* error of poll or read.
InputPoll ==
    /\ run.input = "poll"
    /\ \/ \E event \in {"quit", "other"} :
              /\ run.rx = "open" => Len(run.channel) < MaxQueue
              /\ run' = send(run, event)
       \/ run' = [run EXCEPT !.input = "tick"]
       \/ run' = [run EXCEPT !.due = TRUE, !.input = "tick"]
       \/ run' = [run EXCEPT !.input = "exited"]
    /\ UNCHANGED run_vars

InputTick ==
    /\ run.input = "tick"
    /\ run.due /\ run.rx = "open" => Len(run.channel) < MaxQueue
    /\ run' = tick(run)
    /\ UNCHANGED run_vars

\* Time passes: tick_rate since the last tick.
TickElapses ==
    /\ run.input # "exited"
    /\ ~run.due
    /\ run' = [run EXCEPT !.due = TRUE]
    /\ UNCHANGED run_vars

\* select! in the loop: an event is received and handled, the channel is
\* found closed (no sender left and nothing waiting), or Ctrl-C is signalled.
Select ==
    /\ run.pc = "select"
    /\ \/ /\ run.channel # <<>>
          /\ run' = [run EXCEPT !.channel = Tail(@),
                                !.pc = IF Head(run.channel) = "quit"
                                       THEN "exit_requested" ELSE "select"]
       \/ /\ run.channel = <<>>
          /\ run.input = "exited"
          /\ run' = [run EXCEPT !.pc = "exit_requested"]
       \/ run' = [run EXCEPT !.pc = "exit_requested"]
    /\ UNCHANGED run_vars

\* drop(terminal); drop(rx).
DropChannel ==
    /\ run.pc = "exit_requested"
    /\ run' = [run EXCEPT !.rx = "dropped", !.channel = <<>>, !.pc = "await_input"]
    /\ UNCHANGED run_vars

\* event_handle.await.
JoinInput ==
    /\ run.pc = "await_input"
    /\ run.input = "exited"
    /\ run' = [run EXCEPT !.pc = "shutdown"]
    /\ UNCHANGED run_vars

\* ServerHandle::shutdown up to the select: the signal is sent.
Signal ==
    /\ run.pc = "shutdown"
    /\ run' = [run EXCEPT !.signalled = TRUE, !.slept = 0, !.pc = "await_server"]
    /\ UNCHANGED run_vars

\* The select of ServerHandle::shutdown: the server task has ended, ...
JoinServer ==
    /\ run.pc = "await_server"
    /\ run.server \in {"finished", "failed"}
    /\ run' = [run EXCEPT !.pc = "done",
                          !.result = IF run.server = "finished" THEN "ok" ELSE "err"]
    /\ UNCHANGED run_vars

\* ... or the sleep has: the task is aborted.
Timeout ==
    /\ run.pc = "await_server"
    /\ run.slept >= SHUTDOWN_TIMEOUT
    /\ run' = [run EXCEPT !.pc = "done", !.result = "ok",
                          !.server = IF @ = "serving" THEN "aborted" ELSE @]
    /\ UNCHANGED run_vars

\* Time passes: one second of the sleep.
Second ==
    /\ run.pc = "await_server"
    /\ run.slept < SHUTDOWN_TIMEOUT
    /\ run' = [run EXCEPT !.slept = @ + 1]
    /\ UNCHANGED run_vars

\* axum::serve with graceful shutdown: connections are accepted until the
\* signal, each is served for as long as its client keeps it open, and the
\* task ends when none is left after the signal, or on an error.
Accept ==
    /\ run.server = "serving"
    /\ ~run.signalled
    /\ run.conns < MaxConns
    /\ run' = [run EXCEPT !.conns = @ + 1]
    /\ UNCHANGED run_vars

Close ==
    /\ run.server = "serving"
    /\ run.conns > 0
    /\ run' = [run EXCEPT !.conns = @ - 1]
    /\ UNCHANGED run_vars

ServerEnds ==
    /\ run.server = "serving"
    /\ \/ /\ run.signalled
          /\ run.conns = 0
          /\ run' = [run EXCEPT !.server = "finished"]
       \/ run' = [run EXCEPT !.server = "failed"]
    /\ UNCHANGED run_vars

MainStep == Select \/ DropChannel \/ JoinInput \/ Signal \/ JoinServer \/ Timeout

InputStep == InputPoll \/ InputTick

TimeStep == TickElapses \/ Second

ServerStep == Accept \/ Close \/ ServerEnds

NextShutdown == MainStep \/ InputStep \/ TimeStep \/ ServerStep

SpecShutdown == Init /\ [][NextShutdown]_vars

\* The runtime schedules run() and the event loop whenever they can take a
\* step, and time passes; nothing is assumed of the server and its clients.
SpecShutdownLive ==
    /\ SpecShutdown
    /\ WF_vars(MainStep)
    /\ WF_vars(InputStep)
    /\ WF_vars(TimeStep)

(***************************************************************************)
(* Summaries: clip and flatten.  A text is a sequence of characters        *)
(* (Unicode scalar values), as chars() yields them.                        *)
(***************************************************************************)
\* The width every summary is clipped to.
CLIP_WIDTH == 80

\* The character U+2026, written here as one ASCII character.
ELLIPSIS == "~"

\* A variant of clip that keeps max_chars characters before the ellipsis.
clip_keeping_all(text, max_chars) ==
    IF Len(text) <= max_chars THEN text
    ELSE Append(SubSeq(text, 1, max_chars), ELLIPSIS)

clip(text, max_chars) ==
    IF Len(text) <= max_chars THEN text
    ELSE Append(SubSeq(text, 1, saturating_sub(max_chars, 1)), ELLIPSIS)

\* The character an entity name stands for: named and numeric entities.
entity_char(name) ==
    CASE name = <<"a", "m", "p">> -> Some("&")
      [] name = <<"l", "t">> -> Some("<")
      [] name = <<"#", "3", "2">> -> Some(" ")
      [] OTHER -> None

\* decode_html_entities: one pass from left to right; "&name;" with a known
\* name becomes its character, and what was decoded is not read again.
RECURSIVE decode_from(_, _)
decode_from(text, i) ==
    IF i > Len(text) THEN <<>>
    ELSE LET ends == {j \in (i + 1)..Len(text) : text[j] = ";"}
             end == CHOOSE j \in ends : \A k \in ends : j <= k
             decoded == IF text[i] = "&" /\ ends # {}
                        THEN entity_char(SubSeq(text, i + 1, end - 1))
                        ELSE None
         IN IF is_some(decoded)
            THEN <<unwrap(decoded)>> \o decode_from(text, end + 1)
            ELSE <<text[i]>> \o decode_from(text, i + 1)

decode_html_entities(text) == decode_from(text, 1)

\* A variant of split_whitespace_join that trims the ends only.
trim_only(text) == trim(text)

\* split_whitespace().collect::<Vec<_>>().join(" "): the words of the text
\* with one space between them.
RECURSIVE join_words(_, _, _)
join_words(text, joined, pending) ==
    IF text = <<>> THEN joined
    ELSE IF IsSpace(Head(text)) THEN join_words(Tail(text), joined, joined # <<>>)
    ELSE join_words(Tail(text),
                    (IF pending THEN Append(joined, " ") ELSE joined) \o <<Head(text)>>,
                    FALSE)

split_whitespace_join(text) == join_words(text, <<>>, FALSE)

flatten(text) == split_whitespace_join(decode_html_entities(text))

\* A text of n characters "a" with the i-th one replaced by the mark.
Marked(n, i, mark) == [k \in 1..n |-> IF k = i THEN mark ELSE "a"]

ClipTexts ==
    {Marked(n, i, mark) : n \in 0..MaxText, i \in 1..MaxText, mark \in {"a", "b", ELLIPSIS}}

\* Plain characters, whitespace, entities and the halves of a doubly
\* encoded entity.
Pieces ==
    {<<"a">>, <<" ">>, <<"&", "a", "m", "p", ";">>, <<"a", "m", "p", ";">>,
     <<"&", "l", "t", ";">>, <<"l", "t", ";">>, <<"&", "#", "3", "2", ";">>,
     <<"#", "3", "2", ";">>}

RECURSIVE Concat(_)
Concat(pieces) == IF pieces = <<>> THEN <<>> ELSE Head(pieces) \o Concat(Tail(pieces))

FlattenTexts == {Concat(pieces) : pieces \in SeqsUpTo(Pieces, MaxPieces)}

\* A text is picked and the function is called on it, then on its result.
InitPreview ==
    /\ with_debug_logger(PayloadLogger_none)
    /\ detail = <<>>
    /\ app = RaygunApp_bootstrap
    /\ ctx = DetailContext_empty
    /\ keys = <<>>
    /\ list = RaygunApp_list
    /\ cycle = NoCycle
    /\ spawned = 0
    /\ run = RaygunApp_run
    /\ view = NoView
    /\ \/ \E text \in ClipTexts : preview = [function |-> "clip", values |-> <<text>>]
       \/ \E text \in FlattenTexts :
              preview = [function |-> "flatten", values |-> <<text>>]

Clip ==
    /\ preview.function = "clip"
    /\ Len(preview.values) < 3
    /\ preview' = [preview EXCEPT
                      !.values = Append(@, clip(preview.values[Len(preview.values)],
                                                CLIP_WIDTH))]
    /\ UNCHANGED <<store_vars, ingest_vars, detail, app, list, ctx, keys, cycle, spawned,
                   run, view>>

Flatten ==
    /\ preview.function = "flatten"
    /\ Len(preview.values) < 3
    /\ preview' = [preview EXCEPT
                      !.values = Append(@, flatten(preview.values[Len(preview.values)]))]
    /\ UNCHANGED <<store_vars, ingest_vars, detail, app, list, ctx, keys, cycle, spawned,
                   run, view>>

NextPreview == Clip \/ Flatten

SpecPreview == InitPreview /\ [][NextPreview]_vars

(***************************************************************************)
(* The var-dumper tree: parse_sf_dump walks the lines of the sanitized     *)
(* dump and keeps an indent counter.                                       *)
(***************************************************************************)
starts_with(s, prefix) ==
    Len(prefix) <= Len(s) /\ SubSeq(s, 1, Len(prefix)) = prefix

ends_with(s, suffix) ==
    Len(suffix) <= Len(s) /\ SubSeq(s, Len(s) - Len(suffix) + 1, Len(s)) = suffix

contains(s, pattern) ==
    \E i \in 1..(Len(s) - Len(pattern) + 1) :
        SubSeq(s, i, i + Len(pattern) - 1) = pattern

RECURSIVE trim_end_matches(_, _)
trim_end_matches(s, ch) ==
    IF s # <<>> /\ s[Len(s)] = ch THEN trim_end_matches(SubSeq(s, 1, Len(s) - 1), ch)
    ELSE s

starts_with_closing_bracket(line) ==
    starts_with(line, <<"]">>) \/ starts_with(line, <<"}">>)

ends_with_open_bracket(line) ==
    LET text == trim_end(trim_end_matches(line, ","))
    IN \/ ends_with(text, <<"[">>)
       \/ ends_with(text, <<"{">>)
       \/ ends_with(text, <<"=", ">", " ", "a", "r", "r", "a", "y", "(">>)
       \/ ends_with(text, <<"=", ">", " ", "a", "r", "r", "a", "y", ":">>)
       \/ starts_with(text, <<"s", "t", "d", "C", "l", "a", "s", "s", "#">>)
       \/ /\ contains(text, <<" ", "{", "#">>)
          /\ ends_with(text, <<"▼">>) \/ ends_with(text, <<"▶">>)

is_parenthesis_open(line) == line = <<"(">>

is_parenthesis_close(line) == line = <<")">> \/ line = <<")", ",">>

\* A variant of the loop body below that lowers the counter after the
\* closing line is emitted.
parse_line_closing_late(state, raw_line, at) ==
    LET trimmed == trim(raw_line)
        closing == starts_with_closing_bracket(trimmed)
    IN IF trimmed = <<>> THEN state
       ELSE IF is_parenthesis_open(trimmed) THEN [state EXCEPT !.indent = @ + 1]
       ELSE IF is_parenthesis_close(trimmed)
       THEN [state EXCEPT !.indent = saturating_sub(@, 1)]
       ELSE [indent |-> IF ends_with_open_bracket(trimmed) THEN state.indent + 1
                        ELSE IF closing THEN saturating_sub(state.indent, 1)
                        ELSE state.indent,
             lines |-> Append(state.lines,
                              [indent |-> state.indent, text |-> trimmed, raw |-> at])]

\* The body of the loop of parse_sf_dump for the raw line number `at`; raw
\* keeps, for each emitted line, the raw line it came from.
parse_line(state, raw_line, at) ==
    LET trimmed == trim(raw_line)
        indent == IF starts_with_closing_bracket(trimmed)
                  THEN saturating_sub(state.indent, 1) ELSE state.indent
    IN IF trimmed = <<>> THEN state
       ELSE IF is_parenthesis_open(trimmed) THEN [state EXCEPT !.indent = @ + 1]
       ELSE IF is_parenthesis_close(trimmed)
       THEN [state EXCEPT !.indent = saturating_sub(@, 1)]
       ELSE [indent |-> IF ends_with_open_bracket(trimmed) THEN indent + 1 ELSE indent,
             lines |-> Append(state.lines,
                              [indent |-> indent, text |-> trimmed, raw |-> at])]

\* The lines of the dumps: an empty line, brackets and parentheses alone,
\* with a comma, indented, behind a key, and a closing bracket at the end
\* of a line.
DumpLines ==
    {<<>>, <<"[">>, <<"]">>, <<" ", "]", ",">>, <<"(">>, <<")">>, <<")", ",">>,
     <<"x">>, <<"x", "[">>, <<"x", "]">>}

Dumps == SeqsUpTo(DumpLines, MaxLines)

InitDump ==
    /\ with_debug_logger(PayloadLogger_none)
    /\ detail = <<>>
    /\ app = RaygunApp_bootstrap
    /\ ctx = DetailContext_empty
    /\ keys = <<>>
    /\ list = RaygunApp_list
    /\ cycle = NoCycle
    /\ spawned = 0
    /\ run = RaygunApp_run
    /\ view = NoView
    /\ \E dump \in Dumps :
           preview = [function |-> "parse_sf_dump", values |-> dump, at |-> 0,
                      was |-> 0, parsed |-> [indent |-> 0, lines |-> <<>>]]

\* One turn of the loop; was keeps the counter as it was before the turn.
ParseLine ==
    /\ preview.function = "parse_sf_dump"
    /\ preview.at < Len(preview.values)
    /\ preview' = [preview EXCEPT
                      !.at = @ + 1,
                      !.was = preview.parsed.indent,
                      !.parsed = parse_line(@, preview.values[preview.at + 1],
                                            preview.at + 1)]
    /\ UNCHANGED <<store_vars, ingest_vars, detail, app, list, ctx, keys, cycle, spawned,
                   run, view>>

NextDump == ParseLine

SpecDump == InitDump /\ [][NextDump]_vars

(***************************************************************************)
(* Vocabulary of the properties.                                           *)
(***************************************************************************)
last(seq) == seq[Len(seq)]

LastN(seq, n) == IF Len(seq) <= n THEN seq ELSE SubSeq(seq, Len(seq) - n + 1, Len(seq))

EventIds(deque) == {deque[i].id : i \in 1..Len(deque)}

KindsOf(request) == {request.payloads[i].kind : i \in 1..Len(request.payloads)}

Called == op = "record_request"

Recorded == Called /\ is_some(ret)

OnlyDisplayable(request) ==
    /\ request.payloads # <<>>
    /\ KindsOf(request) \subseteq DisplayableKinds

\* The log-merge rule applies to the last call: a trace or caller request
\* met a tail that is a solitary log with a message.
MergeFired ==
    /\ has_trace_or_caller(req)
    /\ before.timeline # <<>>
    /\ is_some(extract_single_log_message(last(before.timeline)))

(***************************************************************************)
(* C1: the timeline never holds more than `retention` events, in any state *)
(* a reader (timeline_snapshot, timeline_len) can observe.                 *)
(***************************************************************************)
C1_RetentionBound ==
    /\ timeline_len(inner) <= retention
    /\ Len(timeline_snapshot(inner)) <= retention

C1_Witness ==
    /\ Recorded
    /\ Len(before.timeline) = retention
    /\ ~MergeFired
    /\ timeline_len(inner) = retention

(***************************************************************************)
(* C2, as stated: a recorded request of displayable payloads only leaves   *)
(* the timeline as the `retention` most recent of the previous events and  *)
(* the new one (the head is evicted on overflow and nothing else).         *)
(***************************************************************************)
C2_Original ==
    (Recorded /\ OnlyDisplayable(req))
        => timeline = LastN(Append(before.timeline, unwrap(ret)), retention)

(***************************************************************************)
(* C2, amended: the same, for the requests on which the log-merge does not *)
(* fire; when it fires the tail is replaced and the head is kept.          *)
(***************************************************************************)
C2_EvictsOldest ==
    /\ (Recorded /\ OnlyDisplayable(req) /\ ~MergeFired)
           => timeline = LastN(Append(before.timeline, unwrap(ret)), retention)
    /\ (Recorded /\ OnlyDisplayable(req) /\ MergeFired)
           => timeline = Append(pop_back(before.timeline), unwrap(ret))

C2_Witness ==
    /\ Recorded
    /\ OnlyDisplayable(req)
    /\ ~MergeFired
    /\ Len(before.timeline) = retention
    /\ timeline = Append(Tail(before.timeline), unwrap(ret))

(***************************************************************************)
(* C3: events are appended at the tail only.  Ids are handed out in call   *)
(* order, so: ids increase along the timeline, a recorded event is the     *)
(* tail, and the events that survive a call keep their relative order.     *)
(***************************************************************************)
PositionOf(deque, id) == CHOOSE i \in 1..Len(deque) : deque[i].id = id

C3_ArrivalOrder ==
    /\ \A i, j \in 1..Len(timeline) : i < j => timeline[i].id < timeline[j].id
    /\ Recorded => /\ last(timeline).id = unwrap(ret).id
                   /\ unwrap(ret).id \notin EventIds(before.timeline)
    /\ \A a, b \in EventIds(before.timeline) \cap EventIds(timeline) :
           PositionOf(before.timeline, a) < PositionOf(before.timeline, b)
               => PositionOf(timeline, a) < PositionOf(timeline, b)

C3_Witness ==
    /\ Recorded
    /\ Len(before.timeline) >= 2
    /\ Len(timeline) >= 2
    /\ EventIds(before.timeline) \cap EventIds(timeline) # {}

(***************************************************************************)
(* More vocabulary: what a call did to the timeline.                       *)
(***************************************************************************)
\* The call put an event into the timeline that was not there before.
AddedEvent == EventIds(timeline) \ EventIds(before.timeline) # {}

\* The call changed an event that was and still is in the timeline.
ModifiedEvent ==
    \E i \in 1..Len(before.timeline), j \in 1..Len(timeline) :
        /\ before.timeline[i].id = timeline[j].id
        /\ before.timeline[i] # timeline[j]

HasDisplayable(request) == KindsOf(request) \cap DisplayableKinds # {}

HasPopOrClear(request) == KindsOf(request) \cap {"remove", "hide", "clear_all"} # {}

\* The values the request's payloads of one kind give under one key, in order.
RECURSIVE ValuesOf(_, _, _)
ValuesOf(payloads, kind, key) ==
    IF payloads = <<>> THEN <<>>
    ELSE (IF Head(payloads).kind = kind /\ key \in DOMAIN Head(payloads).content
          THEN <<Head(payloads).content[key]>> ELSE <<>>)
         \o ValuesOf(Tail(payloads), kind, key)

ColorsOf(request) == ValuesOf(request.payloads, "color", "color")

LabelsOf(request) == ValuesOf(request.payloads, "label", "label")

\* An event with the request's color and label (the last of each) set.
Tagged(event, request) ==
    [event EXCEPT
        !.color = IF ColorsOf(request) # <<>> THEN Some(last(ColorsOf(request))) ELSE @,
        !.label = IF LabelsOf(request) # <<>> THEN Some(last(LabelsOf(request))) ELSE @]

(***************************************************************************)
(* C4, as stated: record_request returns an event if and only if the       *)
(* request added an event to the timeline or modified a visible one.       *)
(***************************************************************************)
C4_Original == Called => (is_some(ret) <=> (AddedEvent \/ ModifiedEvent))

(***************************************************************************)
(* C4, amended: record_request returns an event if and only if the request *)
(* added an event to the timeline, and the returned event is that new      *)
(* tail; a request that only tags the tail in place returns None.          *)
(***************************************************************************)
C4_SomeIffAdded ==
    Called => /\ is_some(ret) <=> AddedEvent
              /\ is_some(ret) => last(timeline) = unwrap(ret)
              /\ (ModifiedEvent /\ ~HasDisplayable(req)) => ret = None

C4_Witness ==
    /\ Called
    /\ ret = None
    /\ ModifiedEvent
    /\ ~AddedEvent

(***************************************************************************)
(* C5: a request with no payload of a displayable kind returns None and    *)
(* adds no event.                                                          *)
(***************************************************************************)
C5_ControlOnlySkipped ==
    (Called /\ ~HasDisplayable(req))
        => /\ ret = None
           /\ ~AddedEvent
           /\ Len(timeline) <= Len(before.timeline)

C5_Witness ==
    /\ Called
    /\ ~HasDisplayable(req)
    /\ {"color", "create_lock"} \subseteq KindsOf(req)
    /\ before.timeline # <<>>
    /\ ret = None

(***************************************************************************)
(* C6: a request with a clear_all payload anywhere in it returns None and  *)
(* leaves the timeline empty.                                              *)
(***************************************************************************)
C6_ClearAllWins ==
    (Called /\ "clear_all" \in KindsOf(req)) => (ret = None /\ timeline = <<>>)

C6_Witness ==
    /\ Called
    /\ Len(req.payloads) = 2
    /\ req.payloads[1].kind = "clear_all"
    /\ req.payloads[2].kind = "log"
    /\ before.timeline # <<>>
    /\ timeline = <<>>

(***************************************************************************)
(* C8, as stated: a request with a color or label payload and nothing      *)
(* displayable sets the tail's color and label in place and changes        *)
(* nothing else in the timeline; None is returned.                         *)
(***************************************************************************)
TagsOnly(request) ==
    /\ ~HasDisplayable(request)
    /\ KindsOf(request) \cap {"color", "label"} # {}

TailTagged ==
    /\ ret = None
    /\ timeline = IF before.timeline = <<>> THEN <<>>
                  ELSE [before.timeline EXCEPT
                           ![Len(before.timeline)] = Tagged(@, req)]

C8_Original == (Called /\ TagsOnly(req)) => TailTagged

(***************************************************************************)
(* C8, amended: the same, for requests that have no remove, hide or        *)
(* clear_all payload either.                                               *)
(***************************************************************************)
C8_TagsTailInPlace ==
    (Called /\ TagsOnly(req) /\ ~HasPopOrClear(req)) => TailTagged

C8_Witness ==
    /\ Called
    /\ TagsOnly(req)
    /\ ~HasPopOrClear(req)
    /\ Len(before.timeline) >= 2
    /\ last(before.timeline).color = None
    /\ last(timeline).color = Some(<<"r">>)
    /\ last(timeline).label = Some(<<"x">>)

(***************************************************************************)
(* C9: a request with a color payload, a displayable payload and no        *)
(* remove, hide or clear_all is recorded as an event of that color (the    *)
(* last one given), and the events already in the timeline, the previous   *)
(* tail among them, keep their color.                                      *)
(***************************************************************************)
C9_ColorOnNewEvent ==
    (Called /\ ColorsOf(req) # <<>> /\ HasDisplayable(req) /\ ~HasPopOrClear(req))
        => /\ is_some(ret)
           /\ unwrap(ret).color = Some(last(ColorsOf(req)))
           /\ last(timeline) = unwrap(ret)
           /\ ~ModifiedEvent
           /\ \A i \in 1..Len(timeline) - 1 :
                  \E j \in 1..Len(before.timeline) : timeline[i] = before.timeline[j]

C9_Witness ==
    /\ Recorded
    /\ ColorsOf(req) # <<>>
    /\ before.timeline # <<>>
    /\ last(before.timeline).color = None
    /\ Len(timeline) >= 2
    /\ timeline[Len(timeline) - 1] = last(before.timeline)
    /\ last(timeline).color = Some(<<"r">>)

(***************************************************************************)
(* Vocabulary for screens and locks.                                       *)
(***************************************************************************)
\* The payloads that follow the last payload of the given kind.
RECURSIVE AfterLast(_, _)
AfterLast(payloads, kind) ==
    IF payloads = <<>> THEN <<>>
    ELSE IF last(payloads).kind = kind THEN <<>>
    ELSE Append(AfterLast(pop_back(payloads), kind), last(payloads))

ScreenNamesOf(payloads) == ValuesOf(payloads, "new_screen", "name")

LockNamesOf(payloads) == ValuesOf(payloads, "create_lock", "name")

\* The request says nothing about its screen: no new_screen payload, no hint.
NoScreenInfo(request) ==
    /\ "new_screen" \notin KindsOf(request)
    /\ extract_screen_from_meta(request.meta) = None

LookupValues == {None, Some(<<"h">>), Some(<<"p">>)}

NoLockAnswers ==
    \A name \in LockNames, hostname \in LookupValues, project \in LookupValues :
        ~lock_exists(inner, name, hostname, project)

\* Whatever is recorded next without screen information has no screen.
NextEventHasNoScreen ==
    \A request \in Requests(LockPayloads, {mEmpty}) :
        LET result == record_request(inner, request, next_id)
        IN (NoScreenInfo(request) /\ is_some(result.ret))
               => unwrap(result.ret).screen = None

ClearedCursorAndLocks ==
    /\ current_screen = None
    /\ locks = <<>>
    /\ NoLockAnswers
    /\ NextEventHasNoScreen

(***************************************************************************)
(* C7, as stated: after a request with a clear_all payload the screen      *)
(* cursor is unset and the lock registry is empty.                         *)
(***************************************************************************)
C7_Original ==
    (Called /\ "clear_all" \in KindsOf(req)) => ClearedCursorAndLocks

(***************************************************************************)
(* C7, amended: the same, when no new_screen payload with a name and no    *)
(* create_lock payload with a name follows the request's last clear_all.   *)
(* Whatever cursor or lock there is afterwards was set after that          *)
(* clear_all.                                                              *)
(***************************************************************************)
NothingSetAfterClearAll(request) ==
    /\ ScreenNamesOf(AfterLast(request.payloads, "clear_all")) = <<>>
    /\ LockNamesOf(AfterLast(request.payloads, "clear_all")) = <<>>

C7_ClearAllResets ==
    /\ (Called /\ "clear_all" \in KindsOf(req) /\ NothingSetAfterClearAll(req))
           => ClearedCursorAndLocks
    /\ (Called /\ "clear_all" \in KindsOf(req))
           => /\ is_some(current_screen)
                  <=> ScreenNamesOf(AfterLast(req.payloads, "clear_all")) # <<>>
              /\ \A name \in DOMAIN locks :
                     \E i \in 1..Len(LockNamesOf(AfterLast(req.payloads, "clear_all"))) :
                         LockNamesOf(AfterLast(req.payloads, "clear_all"))[i] = name

C7_Witness ==
    /\ Called
    /\ "clear_all" \in KindsOf(req)
    /\ NothingSetAfterClearAll(req)
    /\ is_some(before.current_screen)
    /\ before.locks # <<>>
    /\ current_screen = None
    /\ locks = <<>>

(***************************************************************************)
(* C10.  A new_screen payload with a name sets the cursor; the event of    *)
(* that request and every event recorded later without screen information  *)
(* of its own carries the cursor's screen; the cursor moves only on a      *)
(* named new_screen, a clear_all or clear_timeline; a stored event keeps   *)
(* its screen.  ScreenCarried(screen) states this with `screen` as what    *)
(* the request's last named new_screen sets.                               *)
(***************************************************************************)
NamedScreenStands(request) ==
    /\ ScreenNamesOf(request.payloads) # <<>>
    /\ \/ ScreenNamesOf(AfterLast(request.payloads, "clear_all")) # <<>>
       \/ "clear_all" \notin KindsOf(request)

\* The last name a new_screen payload of the request gives, if any.
LastScreenName(request) ==
    IF ScreenNamesOf(request.payloads) = <<>> THEN None
    ELSE Some(last(ScreenNamesOf(request.payloads)))

ScreenCarried(screen) ==
    /\ (Called /\ NamedScreenStands(req))
           => /\ current_screen = screen
              /\ is_some(ret) => unwrap(ret).screen = screen
    /\ (Recorded /\ NoScreenInfo(req)) => unwrap(ret).screen = before.current_screen
    /\ current_screen # before.current_screen
           => \/ op = "clear_timeline"
              \/ Called /\ ScreenNamesOf(req.payloads) # <<>>
              \/ Called /\ "clear_all" \in KindsOf(req)
    /\ \A i \in 1..Len(before.timeline), j \in 1..Len(timeline) :
           before.timeline[i].id = timeline[j].id
               => before.timeline[i].screen = timeline[j].screen

\* C10, as stated: the screen is the payload's name.
C10_Original == ScreenCarried(LastScreenName(req))

Trimmed(name) ==
    IF trim(name) = <<>> THEN <<"S", "c", "r", "e", "e", "n">> ELSE trim(name)

\* C10, amended: the screen is the payload's name without the whitespace
\* around it, and "Screen" when nothing is left of it.
C10_ScreenCarriesOver ==
    ScreenCarried(IF LastScreenName(req) = None THEN None
                  ELSE Some(Trimmed(unwrap(LastScreenName(req)))))

C10_Witness ==
    /\ Recorded
    /\ NoScreenInfo(req)
    /\ Len(timeline) >= 2
    /\ "new_screen" \in KindsOf(timeline[Len(timeline) - 1].request)
    /\ timeline[Len(timeline) - 1].screen = Some(<<"D">>)
    /\ last(timeline).screen = Some(<<"D">>)

(***************************************************************************)
(* C11: the log-merge.  A recorded request with a trace or caller payload  *)
(* that meets a tail whose request is one log payload with a message       *)
(* replaces that tail: the timeline is as long as before, the new event is *)
(* the tail, and its label is the message unless the request has a label   *)
(* payload of its own.  Any other recorded request leaves the previous     *)
(* tail in the timeline, unchanged.                                        *)
(***************************************************************************)
SolitaryLog(event) ==
    /\ Len(event.request.payloads) = 1
    /\ event.request.payloads[1].kind = "log"

C11_LogMerge ==
    /\ (Recorded /\ MergeFired)
           => /\ SolitaryLog(last(before.timeline))
              /\ Len(timeline) = Len(before.timeline)
              /\ timeline = Append(pop_back(before.timeline), unwrap(ret))
              /\ unwrap(ret).label =
                     IF LabelsOf(req) # <<>> THEN Some(last(LabelsOf(req)))
                     ELSE extract_single_log_message(last(before.timeline))
    /\ (Recorded /\ ~MergeFired /\ before.timeline # <<>>)
           => \E i \in 1..Len(timeline) : timeline[i] = last(before.timeline)

C11_Witness ==
    /\ Recorded
    /\ MergeFired
    /\ LabelsOf(req) = <<>>
    /\ Len(before.timeline) = retention
    /\ Len(timeline) = retention
    /\ last(timeline).label = Some(<<"m">>)

(***************************************************************************)
(* C12: lock_exists(name, hostname, project) answers true exactly when a   *)
(* lock is registered under the name and each of hostname and project that *)
(* the lookup provides equals the value stored with the lock; an absent    *)
(* stored value equals no provided value, and a lookup that provides       *)
(* neither matches every registered lock of the name.                      *)
(***************************************************************************)
LookupNames == {<<"L">>, <<"M">>}

StoredEquals(stored, provided) ==
    /\ stored # None
    /\ unwrap(stored) = unwrap(provided)

C12_LockMatches ==
    \A name \in LookupNames, hostname \in LookupValues, project \in LookupValues :
        /\ lock_exists(inner, name, hostname, project)
               <=> /\ name \in DOMAIN locks
                   /\ hostname # None => StoredEquals(locks[name].hostname, hostname)
                   /\ project # None => StoredEquals(locks[name].project_name, project)
        /\ name \in DOMAIN locks => lock_exists(inner, name, None, None)

C12_Witness ==
    /\ <<"L">> \in DOMAIN locks
    /\ locks[<<"L">>].hostname = Some(<<"h">>)
    /\ lock_exists(inner, <<"L">>, Some(<<"h">>), Some(<<"p">>))
    /\ lock_exists(inner, <<"L">>, None, Some(<<"p">>))
    /\ ~lock_exists(inner, <<"L">>, Some(<<"p">>), None)
    /\ ~lock_exists(inner, <<"M">>, None, None)

(***************************************************************************)
(* C13: the lock registry.  A create_lock payload with a name registers    *)
(* the lock with the hostname and project_name of the request meta, and a  *)
(* request of create_lock payloads only adds no event.  A registered lock  *)
(* goes away only by a remove payload that names it, a clear_all payload   *)
(* or clear_lock: clear_timeline, and every request without create_lock,   *)
(* named remove and clear_all payloads (whatever it evicts or pops), leave *)
(* the registry as it was.                                                 *)
(***************************************************************************)
RemovedNamesOf(payloads) == ValuesOf(payloads, "remove", "name")

Names(values) == {values[i] : i \in 1..Len(values)}

\* The request's last create_lock payload names the lock, and no clear_all
\* and no remove naming it follows.
RegistersLock(request, name) ==
    /\ name \in Names(LockNamesOf(request.payloads))
    /\ LET rest == AfterLast(request.payloads, "create_lock")
       IN /\ \A i \in 1..Len(rest) : rest[i].kind # "clear_all"
          /\ name \notin Names(RemovedNamesOf(rest))

TouchesRegistry(request) ==
    \/ "clear_all" \in KindsOf(request)
    \/ LockNamesOf(request.payloads) # <<>>
    \/ RemovedNamesOf(request.payloads) # <<>>

C13_LockRegistry ==
    /\ \A name \in LockNames :
           /\ (Called /\ RegistersLock(req, name))
                  => /\ name \in DOMAIN locks
                     /\ locks[name] = LockRecord_new(get_str(req.meta, "hostname"),
                                                     get_str(req.meta, "project_name"))
           /\ (name \in DOMAIN before.locks /\ name \notin DOMAIN locks)
                  => \/ op = "clear_lock"
                     \/ /\ Called
                        /\ \/ "clear_all" \in KindsOf(req)
                           \/ name \in Names(RemovedNamesOf(req.payloads))
    /\ (Called /\ KindsOf(req) = {"create_lock"})
           => (ret = None /\ timeline = before.timeline)
    /\ op = "clear_timeline" => locks = before.locks
    /\ (Called /\ ~TouchesRegistry(req)) => locks = before.locks

C13_Witness ==
    /\ Recorded
    /\ ~TouchesRegistry(req)
    /\ Len(before.timeline) = retention
    /\ Head(timeline) # Head(before.timeline)
    /\ <<"L">> \in DOMAIN locks
    /\ locks[<<"L">>].hostname = Some(<<"h">>)
    /\ locks = before.locks

(***************************************************************************)
(* C15: a request all of whose payloads have unknown kinds is stored:      *)
(* record_request returns an event for it and the timeline has that one    *)
(* event more.                                                             *)
(***************************************************************************)
KnownKinds ==
    DisplayableKinds \cup
        {"create_lock", "clear_all", "hide", "remove", "color", "label",
         "custom_boolean", "boolean", "php_info"}

AllUnknown(request) ==
    /\ request.payloads # <<>>
    /\ KindsOf(request) \cap KnownKinds = {}

C15_StoresUnknown ==
    (Called /\ AllUnknown(req))
        => /\ is_some(ret)
           /\ EventIds(timeline) \ EventIds(before.timeline) = {unwrap(ret).id}

(***************************************************************************)
(* Vocabulary of the concurrent ingestion.                                 *)
(***************************************************************************)
\* The places of a task between inner.write() and the drop of the guard.
LockedPcs == {"folding", "applied", "merged", "pushed", "stored"}

\* The task has answered a request and not taken the next one yet.
Answered(t) == t.pc = "idle" /\ t.response # NoResponse

Count(seq, x) == Cardinality({i \in 1..Len(seq) : seq[i] = x})

ItemIds(items) == [i \in 1..Len(items) |-> items[i].id]

(***************************************************************************)
(* C14: the fold of one request is atomic.  Whenever no task holds the     *)
(* write lock the store is what the requests make of it when applied one   *)
(* after another, whole, in the order they took the lock, and every        *)
(* record_request returns what it returns in that sequential run; a task   *)
(* holds the write lock exactly from inner.write() to the drop of the      *)
(* guard, at most one at a time and never with a reader; a reader's        *)
(* snapshot is the timeline of the sequential run.                         *)
(***************************************************************************)
C14_FoldAtomic ==
    /\ guard.writer = None => inner = serial
    /\ \A h \in Handlers :
           /\ tasks[h].pc \in LockedPcs <=> guard.writer = Some(h)
           /\ tasks[h].pc \in {"returned", "idle"} => tasks[h].ret = tasks[h].expected
    /\ guard.readers > 0 => (guard.writer = None /\ seen = serial.timeline)

\* Two requests were in flight together and took the lock in the other
\* order than they were drafted in.
C14_Witness ==
    /\ guard.writer = None
    /\ \A h \in Handlers : Answered(tasks[h])
    /\ Len(timeline) = 2
    /\ timeline[1].id > timeline[2].id

(***************************************************************************)
(* C16, as stated: every response of ingest has status 202 Accepted; its   *)
(* body has recorded = true and the event's id exactly when record_request *)
(* returned an event, recorded = false and no event_id otherwise; and for  *)
(* a recorded request the event was in the timeline at the moment          *)
(* record_request returned.                                                *)
(***************************************************************************)
ResponseMatches(t) ==
    /\ t.response.status = "ACCEPTED"
    /\ t.response.recorded <=> is_some(t.ret)
    /\ t.response.event_id =
           IF is_some(t.ret) THEN Some(unwrap(t.ret).id) ELSE None

C16_Original ==
    \A h \in Handlers :
        Answered(tasks[h])
            => /\ ResponseMatches(tasks[h])
               /\ tasks[h].response.recorded => tasks[h].in_at_return

(***************************************************************************)
(* C16, amended: the same response, and for a recorded request the event   *)
(* was in the timeline at the moment record_request released the write     *)
(* lock; another request may take it out before record_request returns.    *)
(***************************************************************************)
C16_IngestResponse ==
    \A h \in Handlers :
        Answered(tasks[h])
            => /\ ResponseMatches(tasks[h])
               /\ tasks[h].response.recorded => tasks[h].in_at_unlock

C16_Witness ==
    \E h \in Handlers :
        /\ Answered(tasks[h])
        /\ tasks[h].response.recorded
        /\ tasks[h].response.event_id = Some(tasks[h].event.id)
        /\ tasks[h].in_at_unlock
        /\ ~tasks[h].in_at_return

(***************************************************************************)
(* C17: with a debug sink configured, record_request hands a request to    *)
(* the sink exactly once if it recorded an event for it and never if it    *)
(* returned None; it does so after it has released the write lock; the     *)
(* queue holds what was handed over, the original request, once.           *)
(***************************************************************************)
C17_ForwardedOnce ==
    /\ \A id \in 1..next_id : Count(sink.sent, id) <= 1
    /\ \A id \in 1..next_id :
           Count(ItemIds(sink.channel), id) + Count(ItemIds(sink.file), id)
               <= Count(sink.sent, id)
    /\ \A h \in Handlers :
           LET t == tasks[h]
           IN /\ t.pc = "logged" => Count(sink.sent, t.event.id) = 1
              /\ (t.pc = "returned" \/ Answered(t))
                     => Count(sink.sent, t.event.id) = IF is_some(t.ret) THEN 1 ELSE 0
              /\ t.pc \in {"drafted", "unlocked"} \cup LockedPcs
                     => Count(sink.sent, t.event.id) = 0
              /\ ~t.log_under_lock
              /\ \A i \in 1..Len(sink.channel) :
                     sink.channel[i].id = t.event.id
                         => sink.channel[i].request = t.event.request

C17_Witness ==
    \E h \in Handlers :
        /\ Answered(tasks[h])
        /\ is_some(tasks[h].ret)
        /\ sink.sent = <<tasks[h].event.id>>
        /\ ItemIds(sink.file) = <<tasks[h].event.id>>
        /\ tasks[h].event.id > 1

(***************************************************************************)
(* C18: the debug sink never holds ingestion up and never changes its      *)
(* result.  Whether the dump file failed to open, a write failed and the   *)
(* writer task stopped, or the writer lags behind: the store and the       *)
(* return values are those of the same requests applied without a sink,    *)
(* and no step of record_request or ingest waits for the sink.             *)
(***************************************************************************)
SameAsWithoutSink ==
    /\ guard.writer = None => inner = serial
    /\ \A h \in Handlers :
           (tasks[h].pc = "returned" \/ Answered(tasks[h]))
               => tasks[h].ret = tasks[h].expected

\* A task waits for the sink nowhere: logger.log, the one step that
\* touches the sink, can be taken whatever the sink's writer is doing.
NeverWaitsOnSink ==
    \A h \in Handlers : tasks[h].pc = "unlocked" => log_ready(sink)

C18_SinkNeverInterferes ==
    /\ SameAsWithoutSink
    /\ NeverWaitsOnSink

\* A request recorded and answered after a write failure stopped the sink.
C18_Witness ==
    \E h \in Handlers :
        /\ sink.task = "stopped"
        /\ Answered(tasks[h])
        /\ is_some(tasks[h].ret)
        /\ in_timeline(tasks[h].event.id)
        /\ Count(sink.sent, tasks[h].event.id) = 1
        /\ Count(ItemIds(sink.file), tasks[h].event.id) = 0
        /\ sink.file # <<>>

(***************************************************************************)
(* Vocabulary of the detail pane.  Line indices count from 0.              *)
(***************************************************************************)
LineIndices == 0..(Len(detail) - 1)

IndentOf(i) == detail[i + 1]

\* Line j is an ancestor of line i: it precedes i with a smaller indent and
\* every line after it up to i is deeper than it.
Ancestor(j, i) ==
    /\ j < i
    /\ IndentOf(j) < IndentOf(i)
    /\ \A k \in (j + 1)..i : IndentOf(k) > IndentOf(j)

\* Line j has an immediate child: a descendant exactly one level deeper.
HasImmediateChild(j) ==
    \E k \in LineIndices : Ancestor(j, k) /\ IndentOf(k) = IndentOf(j) + 1

Elements(seq) == {seq[n] : n \in 1..Len(seq)}

StrictlyIncreasing(seq) == \A m, n \in 1..Len(seq) : m < n => seq[m] < seq[n]

Rendered == keys # <<>> /\ keys[1].key = "Render"

SpaceTwice ==
    /\ Len(keys) = 2
    /\ keys[1].key = "Space"
    /\ keys[2].key = "Space"

C20_ToggleTwice ==
    SpaceTwice
        => /\ app.detail_state.collapsed = keys[1].collapsed
           /\ ctx.visible_indices = keys[1].visible

\* The first Space expanded a collapsed node below the top of the list
\* and the second collapsed it again.
C20_Witness ==
    /\ SpaceTwice
    /\ app.focus = "Detail"
    /\ app.detail_state.cursor > 0
    /\ keys[2].collapsed # keys[1].collapsed
    /\ Len(keys[2].visible) > Len(keys[1].visible)
    /\ app.detail_state.collapsed = keys[1].collapsed
    /\ ctx.visible_indices = keys[1].visible

(***************************************************************************)
(* C24.  clear_timeline leaves the timeline empty and the screen cursor    *)
(* unset: whatever request without a new_screen payload and without a     *)
(* screen hint is recorded next gets no screen, and an event recorded      *)
(* onto an unset cursor without screen information has none.               *)
(***************************************************************************)
NextScreenlessEventHasNoScreen ==
    \A request \in Requests(ScreenPayloads, {mEmpty}) :
        LET result == record_request(inner, request, next_id)
        IN (NoScreenInfo(request) /\ is_some(result.ret))
               => unwrap(result.ret).screen = None

C24_ExplicitClear ==
    /\ op = "clear_timeline"
           => /\ timeline = <<>>
              /\ current_screen = None
              /\ NextScreenlessEventHasNoScreen
    /\ (Recorded /\ NoScreenInfo(req) /\ before.current_screen = None)
           => last(timeline).screen = None

\* The clear found events and a cursor; a plain log recorded next would
\* have carried that cursor.
C24_Witness ==
    /\ op = "clear_timeline"
    /\ before.timeline # <<>>
    /\ is_some(before.current_screen)
    /\ is_some(last(before.timeline).screen)
    /\ timeline = <<>>
    /\ current_screen = None
    /\ is_some(record_request(before, [payloads |-> <<pLog>>, meta |-> mEmpty],
                               next_id).ret)
    /\ unwrap(record_request(inner, [payloads |-> <<pLog>>, meta |-> mEmpty],
                              next_id).ret).screen = None

(***************************************************************************)
(* C27: in every step of the store an event that stays in the timeline     *)
(* keeps everything but its color and label, and its color or label        *)
(* changes only if it is the tail before and after the step and the step   *)
(* belongs to the fold of a request drafted later that has no displayable  *)
(* payload and that gives the new color or label.                          *)
(***************************************************************************)
TaggedBy(old, new, h) ==
    /\ guard.writer = Some(h)
    /\ tasks[h].pc = "folding"
    /\ ~HasDisplayable(tasks[h].event.request)
    /\ tasks[h].event.id > old.id
    /\ new = Tagged(old, tasks[h].event.request)

EventStep(i, j) ==
    /\ timeline'[j] = [timeline[i] EXCEPT !.color = timeline'[j].color,
                                          !.label = timeline'[j].label]
    /\ timeline'[j] # timeline[i]
           => /\ i = Len(timeline)
              /\ j = Len(timeline')
              /\ \E h \in Handlers : TaggedBy(timeline[i], timeline'[j], h)

C27_EventsImmutable ==
    [][\A i \in 1..Len(timeline), j \in 1..Len(timeline') :
           timeline[i].id = timeline'[j].id => EventStep(i, j)]_vars

\* A hide has made the first event the tail, and the same request has
\* given it a color and a label; its other fields are as recorded.
C27_Witness ==
    /\ timeline # <<>>
    /\ tasks["a"].pc = "applied"
    /\ KindsOf(tasks["a"].event.request) = {"hide", "color"}
    /\ last(timeline).color = Some(<<"r">>)
    /\ last(timeline).label = None
    /\ last(timeline).id + 1 < tasks["a"].event.id

(***************************************************************************)
(* Vocabulary for remove and hide.                                         *)
(***************************************************************************)
HasPop(request) == KindsOf(request) \cap {"remove", "hide"} # {}

\* The number of remove and hide payloads of the request.
PopsOf(request) ==
    Cardinality({i \in 1..Len(request.payloads) :
                    request.payloads[i].kind \in {"remove", "hide"}})

\* The timeline the call found, without as many tails as the request pops.
PoppedTails ==
    SubSeq(before.timeline, 1, saturating_sub(Len(before.timeline), PopsOf(req)))

TagLast(deque, request) ==
    IF deque = <<>> THEN deque
    ELSE [deque EXCEPT ![Len(deque)] = Tagged(@, request)]

\* Every lock named by a remove is gone, unless the request registers a
\* lock again after its last remove.
RemovedLocksGone ==
    LockNamesOf(AfterLast(req.payloads, "remove")) = <<>>
        => Names(RemovedNamesOf(req.payloads)) \cap DOMAIN locks = {}

(***************************************************************************)
(* C28, as stated: a request with a remove or hide payload (and no         *)
(* clear_all) returns None, adds no event, pops one tail per remove or     *)
(* hide and leaves all other events unchanged; the locks named by its      *)
(* removes are gone.                                                       *)
(***************************************************************************)
C28_Original ==
    (Called /\ HasPop(req) /\ "clear_all" \notin KindsOf(req))
        => /\ ret = None
           /\ ~AddedEvent
           /\ timeline = PoppedTails
           /\ RemovedLocksGone

(***************************************************************************)
(* C28, amended: the same, except that when the request has no displayable *)
(* payload the event that is the tail after the pops takes the request's   *)
(* color and label.                                                        *)
(***************************************************************************)
C28_PopsTail ==
    (Called /\ HasPop(req))
        => /\ ret = None
           /\ ~AddedEvent
           /\ "clear_all" \notin KindsOf(req)
                  => timeline = IF HasDisplayable(req) THEN PoppedTails
                                ELSE TagLast(PoppedTails, req)
           /\ RemovedLocksGone

\* A log and a hide in one request: the tail is popped, the log is not
\* recorded, the event below is as it was.
C28_Witness ==
    /\ Called
    /\ KindsOf(req) = {"log", "hide"}
    /\ Len(before.timeline) = 2
    /\ timeline = <<before.timeline[1]>>
    /\ ret = None

(***************************************************************************)
(* C29: the payloads of a request take effect in array order.  Of the      *)
(* payloads that write lock L (create_lock L, remove L, clear_all) the     *)
(* last one decides whether L is registered afterwards; create_lock then   *)
(* clear_all leaves no lock, clear_all then create_lock leaves the lock;   *)
(* a color next to a clear_all, in either order, leaves an empty timeline. *)
(***************************************************************************)
WritesLock(payload, name) ==
    \/ payload.kind = "clear_all"
    \/ /\ payload.kind \in {"create_lock", "remove"}
       /\ content_string(payload, "name") = Some(name)

\* The kind of the last payload that writes the lock, "none" without one.
RECURSIVE LastWriter(_, _)
LastWriter(payloads, name) ==
    IF payloads = <<>> THEN "none"
    ELSE IF WritesLock(last(payloads), name) THEN last(payloads).kind
    ELSE LastWriter(pop_back(payloads), name)

C29_ArrayOrder ==
    Called
        => /\ \A name \in LockNames :
                  name \in DOMAIN locks
                      <=> \/ LastWriter(req.payloads, name) = "create_lock"
                          \/ /\ LastWriter(req.payloads, name) = "none"
                             /\ name \in DOMAIN before.locks
           /\ req.payloads = <<pCreateLock, pClearAll>> => locks = <<>>
           /\ req.payloads = <<pClearAll, pCreateLock>> => DOMAIN locks = {<<"L">>}
           /\ ({"color", "clear_all"} \subseteq KindsOf(req)) => timeline = <<>>

\* clear_all first, create_lock second: the timeline and the old lock
\* record are gone, the lock of the second payload is there.
C29_Witness ==
    /\ Called
    /\ req.payloads = <<pClearAll, pCreateLock>>
    /\ before.timeline # <<>>
    /\ before.locks = <<>>
    /\ timeline = <<>>
    /\ DOMAIN locks = {<<"L">>}

(***************************************************************************)
(* Vocabulary for the screen of a recorded event.                          *)
(***************************************************************************)
\* The value under the i-th screen key, as it is or trimmed.
HintValue(meta, i, trimmed) ==
    IF trimmed THEN trim(unwrap(get_str(meta, ScreenKeys[i])))
    ELSE unwrap(get_str(meta, ScreenKeys[i]))

\* The first value under a screen key of the meta that is not empty.
FirstHint(meta, trimmed) ==
    LET good == {i \in 1..Len(ScreenKeys) :
                    /\ is_some(get_str(meta, ScreenKeys[i]))
                    /\ HintValue(meta, i, trimmed) # <<>>}
    IN IF good = {} THEN None
       ELSE Some(HintValue(meta, CHOOSE i \in good : \A k \in good : i <= k, trimmed))

RawHint(meta) == FirstHint(meta, FALSE)

TrimmedHint(meta) == FirstHint(meta, TRUE)

\* The event returned has the screen of the given name or hint, else the
\* cursor the call found; the cursor changes only with a new_screen name.
ScreenChosen(name, hint) ==
    /\ Recorded
           => /\ unwrap(ret).screen = IF name # None THEN name
                                      ELSE IF hint # None THEN hint
                                      ELSE before.current_screen
              /\ last(timeline).screen = unwrap(ret).screen
              /\ current_screen = IF name # None THEN name ELSE before.current_screen

(***************************************************************************)
(* C30, as stated: the screen of a recorded event is the name of the       *)
(* new_screen payload of its request, else the first non-empty screen      *)
(* hint of its meta, else the cursor, else none; a hint leaves the cursor  *)
(* as it was.                                                              *)
(***************************************************************************)
C30_Original == ScreenChosen(LastScreenName(req), RawHint(req.meta))

(***************************************************************************)
(* C30, amended: the same with the name of the last named new_screen       *)
(* payload trimmed ("Screen" when nothing is left) and with the first      *)
(* hint that is not blank, trimmed.                                        *)
(***************************************************************************)
C30_ScreenPrecedence ==
    ScreenChosen(IF LastScreenName(req) = None THEN None
                 ELSE Some(Trimmed(unwrap(LastScreenName(req)))),
                 TrimmedHint(req.meta))

\* A hinted log on a set cursor: the event has the hint of the second key,
\* the cursor stays.
C30_Witness ==
    /\ Recorded
    /\ req.meta = mScreenKeys
    /\ "new_screen" \notin KindsOf(req)
    /\ before.current_screen = Some(<<"D">>)
    /\ unwrap(ret).screen = Some(<<"N">>)
    /\ current_screen = Some(<<"D">>)

(***************************************************************************)
(* C22: clip(s, 80) has at most 80 characters; it is s when s has at most  *)
(* 80 characters and otherwise the first 79 characters of s followed by    *)
(* one ellipsis; clipping the result again changes nothing.                *)
(***************************************************************************)
C22_ClipIdempotent ==
    (preview.function = "clip" /\ Len(preview.values) >= 2)
        => LET s == preview.values[1]
               clipped == preview.values[2]
           IN /\ Len(clipped) <= 80
              /\ Len(s) <= 80 => clipped = s
              /\ Len(s) > 80 => clipped = SubSeq(s, 1, 79) \o <<ELLIPSIS>>
              /\ Len(preview.values) = 3 => preview.values[3] = clipped

\* A text of 82 characters whose 79th differs from the others was clipped
\* to 80 characters, and clipped again.
C22_Witness ==
    /\ preview.function = "clip"
    /\ Len(preview.values) = 3
    /\ Len(preview.values[1]) = 82
    /\ preview.values[1][79] = "b"
    /\ Len(preview.values[2]) = 80
    /\ preview.values[2][79] = "b"
    /\ preview.values[2][80] = ELLIPSIS

(***************************************************************************)
(* C23, as stated: flatten(flatten(s)) = flatten(s) for every text s.      *)
(***************************************************************************)
C23_Original ==
    (preview.function = "flatten" /\ Len(preview.values) = 3)
        => preview.values[3] = preview.values[2]

(***************************************************************************)
(* C23, amended: flatten(s) has no whitespace at its ends and no two       *)
(* whitespace characters in a row, also where the whitespace came out of   *)
(* an entity, and flatten(flatten(s)) = flatten(s) whenever flatten(s)     *)
(* holds no entity.                                                        *)
(***************************************************************************)
Collapsed(text) ==
    /\ text # <<>> => ~IsSpace(text[1]) /\ ~IsSpace(text[Len(text)])
    /\ \A i \in 1..(Len(text) - 1) : ~(IsSpace(text[i]) /\ IsSpace(text[i + 1]))

HoldsEntity(text) ==
    \E i \in 1..Len(text), j \in 1..Len(text) :
        /\ i < j
        /\ text[i] = "&"
        /\ text[j] = ";"
        /\ is_some(entity_char(SubSeq(text, i + 1, j - 1)))

C23_FlattenIdempotent ==
    /\ (preview.function = "flatten" /\ Len(preview.values) >= 2)
           => Collapsed(preview.values[2])
    /\ (preview.function = "flatten" /\ Len(preview.values) = 3)
           => /\ ~HoldsEntity(preview.values[2])
                     => preview.values[3] = preview.values[2]
              /\ Collapsed(preview.values[3])

\* An encoded space and a space between two encoded signs: one space
\* after the first call, the same after the second.
C23_Witness ==
    /\ preview.function = "flatten"
    /\ Len(preview.values) = 3
    /\ preview.values[1] =
           <<"&", "l", "t", ";", "&", "#", "3", "2", ";", " ", "&", "l", "t", ";">>
    /\ preview.values[2] = <<"<", " ", "<">>
    /\ preview.values[3] = <<"<", " ", "<">>

(***************************************************************************)
(* C21.  With a timeline that does not change and shows n >= 1 distinct    *)
(* colors, and no filter active, a run of filter keys makes the filter     *)
(* take the colors one by one in ascending order, each once, and the key   *)
(* after the last color returns to no filter: the k-th key of the run      *)
(* leaves the k-th color for k <= n and no filter for k = n + 1.           *)
(***************************************************************************)
WindowColors(events) ==
    LET window == truncate(rev(events), TIMELINE_VIEW_LIMIT)
    IN {unwrap(window[i].color) : i \in {j \in DOMAIN window : is_some(window[j].color)}}

Ascending(colors) ==
    \A i, j \in DOMAIN colors : i < j => str_lt(colors[i], colors[j])

C21_FilterCycle ==
    LET n == Len(cycle.colors)
    IN cycle.filters # <<>> /\ cycle.start = None /\ n >= 1 =>
           /\ Ascending(cycle.colors)
           /\ Elements(cycle.colors) = WindowColors(cycle.shown)
           /\ Len(cycle.filters) <= n + 1
           /\ \A k \in DOMAIN cycle.filters :
                  cycle.filters[k] = IF k <= n THEN Some(cycle.colors[k]) ELSE None

\* A run of three keys over two colors has come back to no filter.
C21_Witness ==
    /\ cycle.start = None
    /\ Len(cycle.colors) = 2
    /\ Len(cycle.filters) = 3
    /\ cycle.shown = timeline

(***************************************************************************)
(* C25.  After Ctrl-K, and until the next key, no filter is active, the    *)
(* selection is unset or on the first row, the scroll is 0 and every       *)
(* DetailState the app holds is the default one: an event from before the  *)
(* clear that is still on screen, because the store has not been cleared   *)
(* yet, is shown with all its lines and the cursor on the first.           *)
(***************************************************************************)
AfterClearKey == keys # <<>> /\ keys[1].key = "Ctrl-K"

C25_ClearDropsDetailStates ==
    AfterClearKey =>
        /\ list.color_filter = None
        /\ list.selected \in {None, Some(0)}
        /\ app.detail_scroll = 0
        /\ \A id \in DOMAIN list.detail_states :
               list.detail_states[id] = DetailState_default
        /\ app.detail_state = DetailState_default
        /\ visible_len(ctx) = Len(detail)

\* Ctrl-K found a filter and a collapsed line; the store still holds the
\* events, and the frame after the key shows one of them.
C25_Witness ==
    /\ AfterClearKey
    /\ keys[1].collapsed # {}
    /\ is_some(keys[1].filter)
    /\ spawned > 0
    /\ timeline # <<>>
    /\ list.selected = Some(0)
    /\ Len(detail) > 1

(***************************************************************************)
(* C26.  Once run() has left its loop it returns: the input channel is     *)
(* dropped, the event loop finds it closed and terminates, the server is   *)
(* signalled, and the wait for the server task ends with the task or,      *)
(* after SHUTDOWN_TIMEOUT seconds, with its abort.  When run() has         *)
(* returned all of that has happened.                                      *)
(***************************************************************************)
ExitRequested == run.pc # "select"

Returned == run.pc = "done"

Drained ==
    /\ run.rx = "dropped"
    /\ run.input = "exited"
    /\ run.signalled
    /\ run.server \in {"finished", "failed", "aborted"}
    /\ run.server = "aborted" => run.slept = SHUTDOWN_TIMEOUT
    /\ run.slept <= SHUTDOWN_TIMEOUT

C26_ShutdownCompletes ==
    /\ [](Returned => Drained)
    /\ ExitRequested ~> Returned

\* run() has returned by aborting a server that still had a connection open.
C26_Witness ==
    /\ Returned
    /\ run.server = "aborted"
    /\ run.conns > 0
    /\ run.input = "exited"

(***************************************************************************)
(* Vocabulary of the view model: cycle.shown is the snapshot the frame on  *)
(* screen was built from; its window is the newest TIMELINE_VIEW_LIMIT     *)
(* events of it, newest first.                                             *)
(***************************************************************************)
WindowSize == min(Len(cycle.shown), TIMELINE_VIEW_LIMIT)

Newest(k) == cycle.shown[Len(cycle.shown) + 1 - k]

ShownWindow == [k \in 1..WindowSize |-> Newest(k)]

MatchesFilter(event) ==
    list.color_filter = None \/ event.color = list.color_filter

(***************************************************************************)
(* C31.  The rows of a frame are at most TIMELINE_VIEW_LIMIT, and they are *)
(* the newest TIMELINE_VIEW_LIMIT events of the one snapshot the frame     *)
(* took, newest first; with a filter, those of them that have the color    *)
(* of the filter, in the same order.                                       *)
(***************************************************************************)
C31_WindowRows ==
    LET rows == SelectSeq(ShownWindow, MatchesFilter)
    IN /\ Len(list.visible_events) <= TIMELINE_VIEW_LIMIT
       /\ list.visible_events = [i \in DOMAIN rows |-> rows[i].id]

\* A frame over more events than the window holds, with a filter that
\* leaves some rows out.
C31_Witness ==
    /\ Len(cycle.shown) > TIMELINE_VIEW_LIMIT
    /\ is_some(list.color_filter)
    /\ list.visible_events # <<>>
    /\ Len(list.visible_events) < TIMELINE_VIEW_LIMIT

(***************************************************************************)
(* C32.  The available colors of a frame are the non-empty colors of the   *)
(* events of its window, in ascending order and without duplicates, and    *)
(* the filter is absent or one of them.                                    *)
(***************************************************************************)
NonEmptyColors ==
    {unwrap(ShownWindow[k].color) :
         k \in {j \in DOMAIN ShownWindow : is_some(ShownWindow[j].color)}} \ {<<>>}

C32_AvailableColors ==
    /\ Ascending(list.available_colors)
    /\ Elements(list.available_colors) = NonEmptyColors
    /\ list.color_filter = None
           \/ unwrap(list.color_filter) \in Elements(list.available_colors)

(***************************************************************************)
(* C33.  In every frame the selection is unset exactly when there are no   *)
(* rows and is the index of a row otherwise, whatever the keys and the     *)
(* requests since the frame before; the detail view is there exactly when  *)
(* the selection is.                                                       *)
(***************************************************************************)
C33_SelectionInRange ==
    /\ list.selected = None <=> list.visible_events = <<>>
    /\ is_some(list.selected) => unwrap(list.selected) < Len(list.visible_events)
    /\ detail # <<>> <=> is_some(list.selected)

\* Row 0 of a frame that still showed the events after Ctrl-K was
\* selected; the store has been cleared since, and the frame built from the
\* empty snapshot has no rows, no selection and no detail view.
C33_Witness ==
    /\ AfterClearKey
    /\ DOMAIN list.detail_states # {}
    /\ spawned = 0
    /\ cycle.shown = <<>>
    /\ list.selected = None
    /\ detail = <<>>

(***************************************************************************)
(* Vocabulary of the folded tree: the lines a collapsed set leaves in      *)
(* view, told from the indents alone.                                      *)
(***************************************************************************)
Hidden(i) ==
    \E j \in app.detail_state.collapsed \cap LineIndices :
        Ancestor(j, i) /\ HasImmediateChild(j)

visible_count == Cardinality({i \in LineIndices : ~Hidden(i)})

LastKey(key) == Len(keys) = 1 /\ keys[1].key = key

(***************************************************************************)
(* C34: in every view model with a selected event the cursor and the       *)
(* scroll of its detail state are at most visible_count - 1 (0 when no     *)
(* line is visible), visible_count being counted with the collapsed set of *)
(* that same view model, also right after a key that folded lines away.    *)
(***************************************************************************)
C34_CursorInView ==
    /\ app.detail_state.cursor <= saturating_sub(visible_count, 1)
    /\ app.detail_state.scroll <= saturating_sub(visible_count, 1)
    /\ app.detail_scroll = app.detail_state.scroll

\* Left has just folded the line under the cursor: fewer lines are in view
\* and the cursor is on the last of them, below the top.
C34_Witness ==
    /\ LastKey("Left")
    /\ app.detail_state.collapsed # keys[1].collapsed
    /\ visible_count < Len(keys[1].visible)
    /\ app.detail_state.cursor = visible_count - 1
    /\ app.detail_state.cursor > 0

(***************************************************************************)
(* C37: the collapsed set of a detail state holds only indices of lines of *)
(* the event's detail view that have children; expanding, collapsing and   *)
(* toggling never put a leaf or an index past the last line into it.       *)
(***************************************************************************)
C37_CollapsedHaveChildren ==
    \A i \in app.detail_state.collapsed :
        /\ i \in LineIndices
        /\ HasImmediateChild(i)
        /\ ctx.has_children[i + 1]

\* Left was pressed on a leaf at the top level while two parents are
\* folded: the set is as it was.
C37_Witness ==
    /\ LastKey("Left")
    /\ Cardinality(app.detail_state.collapsed) = 2
    /\ app.detail_state.collapsed = keys[1].collapsed
    /\ ~HasImmediateChild(ctx.visible_indices[app.detail_state.cursor + 1])
    /\ IndentOf(ctx.visible_indices[app.detail_state.cursor + 1]) = 0

(***************************************************************************)
(* C35: compute_has_children marks line i exactly when the scan forward    *)
(* from i + 1, which stops at the first line that is not deeper than i,    *)
(* meets a line of indent(i) + 1.  A line followed only by lines two or    *)
(* more levels deeper has no children, and having it in the collapsed set  *)
(* hides nothing.                                                          *)
(***************************************************************************)
\* The lines the scan from line i passes before it stops.
Scanned(i) ==
    {k \in LineIndices :
         k > i /\ \A m \in (i + 1)..k : IndentOf(m) > IndentOf(i)}

SkipsLevel(i) ==
    /\ Scanned(i) # {}
    /\ \A k \in Scanned(i) : IndentOf(k) >= IndentOf(i) + 2

C35_HasChildren ==
    Rendered
        => \A i \in LineIndices :
               /\ ctx.has_children[i + 1]
                      <=> \E k \in Scanned(i) : IndentOf(k) = IndentOf(i) + 1
               /\ SkipsLevel(i)
                      => /\ ~ctx.has_children[i + 1]
                         /\ ctx.visible_indices =
                                visible_indices_with_children(
                                    detail,
                                    Some(app.detail_state.collapsed \ {i})).visible_indices

\* The first line is in the collapsed set and is followed by lines two
\* levels deeper only: every line is visible.
C35_Witness ==
    /\ Rendered
    /\ Len(detail) = 3
    /\ SkipsLevel(0)
    /\ Scanned(0) = {1, 2}
    /\ app.detail_state.collapsed = {0}
    /\ ctx.visible_indices = <<0, 1, 2>>

(***************************************************************************)
(* Vocabulary of the var-dumper tree.  Raw lines count from 1.             *)
(***************************************************************************)
Raw == preview.values

Emitted == {preview.parsed.lines[n] : n \in 1..Len(preview.parsed.lines)}

Parsing == preview.function = "parse_sf_dump"

Parsed == Parsing /\ preview.at = Len(Raw)

Openers == {"[", "{", "("}

Closers == {"]", "}", ")"}

BracketsIn(line, brackets) ==
    Cardinality({i \in 1..Len(line) : line[i] \in brackets})

\* The nesting depth after raw line k, counted from the characters.
RECURSIVE Depth(_)
Depth(k) ==
    IF k = 0 THEN 0
    ELSE Depth(k - 1) + BracketsIn(Raw[k], Openers) - BracketsIn(Raw[k], Closers)

Balanced ==
    /\ \A k \in 1..Len(Raw) : Depth(k) >= 0
    /\ Depth(Len(Raw)) = 0

\* The raw line that opened what the first bracket of raw line k closes.
Opens(j, k) ==
    /\ j < k
    /\ Depth(j - 1) < Depth(k - 1)
    /\ Depth(j) >= Depth(k - 1)
    /\ \A m \in (j + 1)..(k - 1) : Depth(m) >= Depth(k - 1)

StartsClosing(text) == text # <<>> /\ text[1] \in {"]", "}"}

EndsOpening(text) ==
    LET bare == trim_end_matches(text, ",")
    IN bare # <<>> /\ bare[Len(bare)] \in {"[", "{"}

\* Every bracket stands where the walk looks for it: an opening bracket at
\* the end of its line, a closing bracket at the start, a parenthesis on a
\* line of its own.
AtLineEnds(text) ==
    /\ \A i \in 1..Len(text) :
           /\ text[i] \in {"[", "{"} => i = Len(trim_end_matches(text, ","))
           /\ text[i] \in {"]", "}"} => i = 1
           /\ text[i] \in {"(", ")"} => is_parenthesis_open(text) \/ is_parenthesis_close(text)

WellFormed == \A k \in 1..Len(Raw) : AtLineEnds(trim(Raw[k]))

\* The counter is never negative; a line that ends with an opening bracket
\* leaves it one above its own indent; a line that is "(" or ")" moves it
\* and is not emitted.
CounterRules ==
    /\ preview.parsed.indent >= 0
    /\ \A e \in Emitted : e.indent >= 0
    /\ \A e \in Emitted :
           e.raw = preview.at /\ EndsOpening(e.text)
               => preview.parsed.indent = e.indent + 1
    /\ preview.at > 0 /\ trim(Raw[preview.at]) = <<"(">>
           => /\ preview.parsed.indent = preview.was + 1
              /\ \A e \in Emitted : e.raw # preview.at
    /\ preview.at > 0 /\ trim(Raw[preview.at]) = <<")">>
           => /\ preview.parsed.indent = saturating_sub(preview.was, 1)
              /\ \A e \in Emitted : e.raw # preview.at

\* A line that starts with a closing bracket is at the indent of the line
\* that opened it, and the line that closes an outermost structure is at
\* indent 0.
ClosingRules ==
    /\ \A e, o \in Emitted :
           StartsClosing(e.text) /\ Opens(o.raw, e.raw) => e.indent = o.indent
    /\ \A e \in Emitted :
           StartsClosing(e.text) /\ Depth(e.raw) = 0 => e.indent = 0

C38_ReceivedAtOrder ==
    \A i, j \in 1..Len(timeline) :
        i < j => timeline[i].received_at <= timeline[j].received_at

(***************************************************************************)
(* C39: every view model is consistent with a single state of the store:   *)
(* total_events is the length of the timeline its rows were taken from,    *)
(* and so never smaller than the number of rows, also when a request or a  *)
(* clear is applied while the frame is being built.                        *)
(***************************************************************************)
C39_TotalEvents ==
    view.pc = "idle"
        => /\ view.total_events = view.taken_from
           /\ view.total_events >= Len(view.timeline)

(***************************************************************************)
(* C40: the view model built right after Ctrl-K, no request having come in *)
(* between the key and the frame, shows an empty timeline and no selection *)
(* and no detail state has been created for an event from before the      *)
(* clear.                                                                  *)
(***************************************************************************)
\* The turn of the loop that handles Ctrl-K: the key spawns the clear and
\* the frame is built.
ClearKeyTurn == spawned' = spawned + 1

C40_ClearShowsEmpty ==
    [][ClearKeyTurn
           => /\ list'.visible_events = <<>>
              /\ list'.selected = None
              /\ \A i \in 1..Len(timeline) :
                     timeline[i].id \notin DOMAIN list'.detail_states]_vars

====
